---------------------------- MODULE Spec2Model ----------------------------
(***************************************************************************)
(* A model of the indexing engine of TestPandas: the single-level Index    *)
(* (src/Index.py) and the MultiIndex (src/MultiIndex.py).                  *)
(*                                                                         *)
(* Python values are modelled as follows.                                  *)
(*   - a scalar label is an integer of 1 .. NumScalars; NaN and EmptyTuple *)
(*     are the two labels that validation rejects;                         *)
(*   - a list is a sequence; list position p is sequence index p + 1;      *)
(*   - a dict is a function; EmptyDict is {};                              *)
(*   - an optional integer (a slice bound) is None or Some(n);              *)
(*   - an object is a record of its attributes; "cached" is               *)
(*     "self._cache is not None" and "cache" the dict when it is;          *)
(*   - a call returns Ret(self', kind, val): the object after the call,    *)
(*     the kind of outcome (the type of the returned value, or the name of *)
(*     the exception raised) and the returned value as a sequence.         *)
(* The iteration order of a Python set is not defined: every operation     *)
(* that iterates a set takes the order as a parameter, chosen by \E.       *)
(***************************************************************************)
EXTENDS Integers, Sequences, FiniteSets, TLC

(* Bounds of the model. *)
NumScalars == 2
MaxLen == 3
MaxRows == 2
MaxListLen == 2
MaxStep == 2
MaxProductLevels == 3

(* Labels that _verify_item rejects. *)
NaN == 0
EmptyTuple == -1

Scalars == 1 .. NumScalars
Items == Scalars \cup {NaN, EmptyTuple}

-----------------------------------------------------------------------------
(* Python values *)

None == << >>
Some(n) == << n >>
EmptyDict == [x \in {} |-> 0]

DictSet(d, k, v) == [x \in (DOMAIN d) \cup {k} |-> IF x = k THEN v ELSE d[x]]

Ret(self, kind, val) == [self |-> self, kind |-> kind, val |-> val]

Exceptions == {"IndexError", "TypeError", "KeyError", "ValueError"}
Raised(r) == r.kind \in Exceptions

Contains(s, x) == \E i \in 1 .. Len(s) : s[i] = x

(* list.index(x): the first sequence index holding x (0 when absent). *)
FirstIndex(s, x) ==
  IF Contains(s, x) THEN CHOOSE i \in 1 .. Len(s) : s[i] = x /\ \A j \in 1 .. (i - 1) : s[j] # x
  ELSE 0

(* The list with nothing removed: a position that stays filed under its old key. *)
ListRemove_skipped(s, x) == s

(* list.remove(x): drops the first occurrence. *)
ListRemove(s, x) ==
  LET i == FirstIndex(s, x)
  IN  IF i = 0 THEN s ELSE SubSeq(s, 1, i - 1) \o SubSeq(s, i + 1, Len(s))

RECURSIVE InsertSorted(_, _)
InsertSorted(s, x) ==
  IF s = << >> THEN << x >>
  ELSE IF x <= Head(s) THEN << x >> \o s
  ELSE << Head(s) >> \o InsertSorted(Tail(s), x)

(* The list left in the order it has: a bucket that is not sorted again. *)
ListSort_skipped(s) == s

(* list.sort() *)
RECURSIVE ListSort(_)
ListSort(s) == IF s = << >> THEN << >> ELSE InsertSorted(ListSort(Tail(s)), Head(s))

(* The enumerations of a set: the orders in which iterating it may visit it. *)
Orders(S) == {o \in [1 .. Cardinality(S) -> S] : \A i, j \in DOMAIN o : i # j => o[i] # o[j]}

SeqSet(s) == {s[i] : i \in 1 .. Len(s)}

SeqsUpTo(S, n) == UNION {[1 .. k -> S] : k \in 0 .. n}

-----------------------------------------------------------------------------
(* Index: validation and the interning store (src/Index.py) *)

(* Index(): the attributes set at the top of __init__. *)
Index_empty ==
  [index |-> << >>, mapping |-> EmptyDict, reverse_mapping |-> EmptyDict,
   cached |-> FALSE, cache |-> EmptyDict]

(* _verify_item: the exception it raises, or "None". *)
Index_verify_item(item) ==
  IF item = EmptyTuple THEN "IndexError"
  ELSE IF item = NaN THEN "TypeError"
  ELSE "None"

(* _verify_sequence: the exception of the first item that is rejected. *)
RECURSIVE Index_verify_sequence(_)
Index_verify_sequence(sequence) ==
  IF sequence = << >> THEN "None"
  ELSE IF Index_verify_item(Head(sequence)) # "None" THEN Index_verify_item(Head(sequence))
  ELSE Index_verify_sequence(Tail(sequence))

Index_len(self) == Len(self.index)

(* The item interned under a key one past len(mapping). *)
Index_update_mappings_skipping_a_key(self, new_mapping, verify_entry) ==
  IF verify_entry /\ Index_verify_item(new_mapping) # "None"
  THEN Ret(self, Index_verify_item(new_mapping), << >>)
  ELSE IF new_mapping \notin DOMAIN self.reverse_mapping
  THEN LET length == Cardinality(DOMAIN self.reverse_mapping) + 1
       IN  Ret([self EXCEPT !.mapping = DictSet(self.mapping, length, new_mapping),
                            !.reverse_mapping = DictSet(self.reverse_mapping, new_mapping, length)],
               "None", << >>)
  ELSE Ret(self, "None", << >>)

(* _update_mappings_with_single_item as it would be if the new key were the
   number of positions instead of the size of the store. *)
Index_update_mappings_with_single_item_keyed_by_positions(self, new_mapping, verify_entry) ==
  IF verify_entry /\ Index_verify_item(new_mapping) # "None"
  THEN Ret(self, Index_verify_item(new_mapping), << >>)
  ELSE IF new_mapping \notin DOMAIN self.reverse_mapping
  THEN LET length == Len(self.index)
       IN  Ret([self EXCEPT !.mapping = DictSet(self.mapping, length, new_mapping),
                            !.reverse_mapping = DictSet(self.reverse_mapping, new_mapping, length)],
               "None", << >>)
  ELSE Ret(self, "None", << >>)

Index_update_mappings_with_single_item(self, new_mapping, verify_entry) ==
  IF verify_entry /\ Index_verify_item(new_mapping) # "None"
  THEN Ret(self, Index_verify_item(new_mapping), << >>)
  ELSE IF new_mapping \notin DOMAIN self.reverse_mapping
  THEN LET length == Cardinality(DOMAIN self.reverse_mapping)
       IN  Ret([self EXCEPT !.mapping = DictSet(self.mapping, length, new_mapping),
                            !.reverse_mapping = DictSet(self.reverse_mapping, new_mapping, length)],
               "None", << >>)
  ELSE Ret(self, "None", << >>)

(* The loop of _update_mappings_with over set(new_mappings), visited in `order`. *)
RECURSIVE Index_update_mappings_loop(_, _)
Index_update_mappings_loop(self, order) ==
  IF order = << >> THEN Ret(self, "None", << >>)
  ELSE Index_update_mappings_loop(
         Index_update_mappings_with_single_item(self, Head(order), FALSE).self, Tail(order))

(* _update_mappings_with, for a list; order enumerates set(new_mappings). *)
Index_update_mappings_with(self, new_mappings, order, verify_entries) ==
  IF verify_entries /\ Index_verify_sequence(new_mappings) # "None"
  THEN Ret(self, Index_verify_sequence(new_mappings), << >>)
  ELSE Index_update_mappings_loop(self, order)

-----------------------------------------------------------------------------
(* Index: the cache *)

(* A cache whose buckets keep only the last position of each key. *)
RECURSIVE Index_create_cache_last_position(_, _, _)
Index_create_cache_last_position(index, i, cache) ==
  IF i > Len(index) THEN cache
  ELSE Index_create_cache_last_position(index, i + 1, DictSet(cache, index[i], << i - 1 >>))

RECURSIVE Index_create_cache_loop(_, _, _)
Index_create_cache_loop(index, i, cache) ==
  IF i > Len(index) THEN cache
  ELSE LET item == index[i]
       IN  Index_create_cache_loop(index, i + 1,
             IF item \notin DOMAIN cache THEN DictSet(cache, item, << i - 1 >>)
             ELSE DictSet(cache, item, Append(cache[item], i - 1)))

Index_create_cache(self) ==
  [self EXCEPT !.cached = TRUE, !.cache = Index_create_cache_loop(self.index, 1, EmptyDict)]

Index_flush_cache(self) == [self EXCEPT !.cached = FALSE, !.cache = EmptyDict]

(* operation_args[index]: a list of rows, or a value that cannot be iterated. *)
PyList(rows) == [iterable |-> TRUE, items |-> rows]
PyInt(n) == [iterable |-> FALSE, items |-> << n >>]

(* The loop "for row in rows" of _update_cache. *)
RECURSIVE Index_update_cache_rows(_, _, _, _)
Index_update_cache_rows(self, operation, internal_form, rows) ==
  IF rows = << >> THEN Ret(self, "None", << >>)
  ELSE LET row == Head(rows)
       IN  IF row >= Index_len(self) THEN Ret(self, "IndexError", << >>)
           ELSE IF operation = "add"
           THEN Index_update_cache_rows(
                  [self EXCEPT !.cache =
                     IF internal_form \in DOMAIN self.cache
                     THEN DictSet(self.cache, internal_form, Append(self.cache[internal_form], row))
                     ELSE DictSet(self.cache, internal_form, << row >>)],
                  operation, internal_form, Tail(rows))
           ELSE IF internal_form \notin DOMAIN self.cache THEN Ret(self, "KeyError", << >>)
           ELSE IF ~Contains(self.cache[internal_form], row) THEN Ret(self, "ValueError", << >>)
           ELSE Index_update_cache_rows(
                  [self EXCEPT !.cache =
                     DictSet(self.cache, internal_form, ListRemove(self.cache[internal_form], row))],
                  operation, internal_form, Tail(rows))

(* _update_cache with operation_args = {key : rows}. *)
Index_update_cache(self, operation, key, rows, by_internal_form) ==
  IF ~self.cached THEN Ret(self, "None", << >>)
  ELSE IF ~by_internal_form /\ key \notin DOMAIN self.reverse_mapping
  THEN Ret(self, "KeyError", << >>)
  ELSE LET internal_form == IF by_internal_form THEN key ELSE self.reverse_mapping[key]
       IN  IF ~rows.iterable THEN Ret(self, "TypeError", << >>)
           ELSE LET r == Index_update_cache_rows(self, operation, internal_form, rows.items)
                IN  IF Raised(r) THEN r
                    ELSE IF internal_form \notin DOMAIN r.self.cache
                    THEN Ret(r.self, "KeyError", << >>)
                    ELSE Ret([r.self EXCEPT !.cache =
                                DictSet(r.self.cache, internal_form,
                                        ListSort(r.self.cache[internal_form]))],
                             "None", << >>)

-----------------------------------------------------------------------------
(* Index: construction, extension, lookup *)

(* The loop "for item in sequence" of _extend_index. *)
RECURSIVE Index_extend_index_loop(_, _)
Index_extend_index_loop(self, sequence) ==
  IF sequence = << >> THEN Ret(self, "None", << >>)
  ELSE LET key == self.reverse_mapping[Head(sequence)]
           appended == [self EXCEPT !.index = Append(self.index, key)]
           r == IF appended.cached
                THEN Index_update_cache(appended, "add", key,
                                        PyList(<< Index_len(appended) - 1 >>), TRUE)
                ELSE Ret(appended, "None", << >>)
       IN  IF Raised(r) THEN r ELSE Index_extend_index_loop(r.self, Tail(sequence))

(* _extend_index; order enumerates set(sequence). *)
Index_extend_index(self, sequence, order) ==
  IF sequence = << >> THEN Ret(self, "IndexError", << >>)
  ELSE IF Index_verify_sequence(sequence) # "None"
  THEN Ret(self, Index_verify_sequence(sequence), << >>)
  ELSE Index_extend_index_loop(
         Index_update_mappings_with(self, order, order, FALSE).self, sequence)

(* Index(sequence, cache); order enumerates set(sequence). *)
Index_init(sequence, cache, order) ==
  IF sequence = << >> THEN Ret(Index_empty, "None", << >>)
  ELSE LET r == Index_extend_index(Index_empty, sequence, order)
       IN  IF Raised(r) THEN r
           ELSE IF cache THEN Ret(Index_create_cache(r.self), "None", << >>)
           ELSE r

(* A scan that stops at the first match. *)
Index_scan_first_match(index, internal_form, i) ==
  IF Contains(index, internal_form) THEN << FirstIndex(index, internal_form) - 1 >> ELSE << >>

(* [i for i, key in enumerate(self._index) if key == internal_form] *)
RECURSIVE Index_scan(_, _, _)
Index_scan(index, internal_form, i) ==
  IF i > Len(index) THEN << >>
  ELSE (IF index[i] = internal_form THEN << i - 1 >> ELSE << >>)
       \o Index_scan(index, internal_form, i + 1)

(* get_loc as it would be if a valid item the store does not hold were
   interned by the lookup that misses it. *)
Index_get_loc_interning_misses(self, index, get_all, give_error) ==
  IF Index_verify_item(index) # "None" THEN Ret(self, Index_verify_item(index), << >>)
  ELSE IF index \notin DOMAIN self.reverse_mapping
  THEN (IF give_error
        THEN Ret(Index_update_mappings_with_single_item(self, index, FALSE).self, "KeyError", << >>)
        ELSE Ret(Index_update_mappings_with_single_item(self, index, FALSE).self, "None", << >>))
  ELSE LET internal_form == self.reverse_mapping[index]
       IN  IF ~get_all
           THEN IF self.cached
                THEN IF internal_form \notin DOMAIN self.cache THEN Ret(self, "KeyError", << >>)
                     ELSE IF self.cache[internal_form] = << >> THEN Ret(self, "IndexError", << >>)
                     ELSE Ret(self, "int", << self.cache[internal_form][1] >>)
                ELSE IF ~Contains(self.index, internal_form) THEN Ret(self, "ValueError", << >>)
                     ELSE Ret(self, "int", << FirstIndex(self.index, internal_form) - 1 >>)
           ELSE IF self.cached
                THEN IF internal_form \notin DOMAIN self.cache THEN Ret(self, "KeyError", << >>)
                     ELSE Ret(self, "list", self.cache[internal_form])
                ELSE Ret(self, "list", Index_scan(self.index, internal_form, 1))

Index_get_loc(self, index, get_all, give_error) ==
  IF Index_verify_item(index) # "None" THEN Ret(self, Index_verify_item(index), << >>)
  ELSE IF index \notin DOMAIN self.reverse_mapping
  THEN (IF give_error THEN Ret(self, "KeyError", << >>) ELSE Ret(self, "None", << >>))
  ELSE LET internal_form == self.reverse_mapping[index]
       IN  IF ~get_all
           THEN IF self.cached
                THEN IF internal_form \notin DOMAIN self.cache THEN Ret(self, "KeyError", << >>)
                     ELSE IF self.cache[internal_form] = << >> THEN Ret(self, "IndexError", << >>)
                     ELSE Ret(self, "int", << self.cache[internal_form][1] >>)
                ELSE IF ~Contains(self.index, internal_form) THEN Ret(self, "ValueError", << >>)
                     ELSE Ret(self, "int", << FirstIndex(self.index, internal_form) - 1 >>)
           ELSE IF self.cached
                THEN IF internal_form \notin DOMAIN self.cache THEN Ret(self, "KeyError", << >>)
                     ELSE Ret(self, "list", self.cache[internal_form])
                ELSE Ret(self, "list", Index_scan(self.index, internal_form, 1))

(* to_list *)
Index_to_list(self) == [i \in 1 .. Len(self.index) |-> self.mapping[self.index[i]]]

(* is_unique *)
Index_is_unique(self) ==
  IF self.cached THEN Index_len(self) = Cardinality(DOMAIN self.cache)
  ELSE Index_len(self) = Cardinality(SeqSet(self.index))

-----------------------------------------------------------------------------
(* Index: append and positional set *)

Index_append(self, item) ==
  LET m == Index_update_mappings_with_single_item(self, item, TRUE)
  IN  IF Raised(m) THEN m
      ELSE LET appended == [m.self EXCEPT !.index = Append(m.self.index, m.self.reverse_mapping[item])]
           IN  IF appended.cached
               THEN Index_update_cache(appended, "add", item, PyInt(Index_len(appended) - 1), FALSE)
               ELSE Ret(appended, "None", << >>)

(* _set_item_by_int_index as it would be if a negative position were counted
   from one place before the end. *)
Index_set_item_by_int_index_wrapping_one_early(self, item, index, verify_item) ==
  IF verify_item /\ Index_verify_item(item) # "None"
  THEN Ret(self, Index_verify_item(item), << >>)
  ELSE LET i == IF index < 0 THEN Index_len(self) + index - 1 ELSE index
       IN  IF i >= Index_len(self) \/ i < 0 THEN Ret(self, "IndexError", << >>)
           ELSE LET m == IF item \notin DOMAIN self.reverse_mapping
                         THEN Index_update_mappings_with_single_item(self, item, FALSE).self
                         ELSE self
                    written == [m EXCEPT !.index[i + 1] = m.reverse_mapping[item]]
                IN  IF written.cached
                    THEN LET removed == Index_update_cache(written, "remove", m.index[i + 1],
                                                           PyList(<< i >>), TRUE)
                         IN  IF Raised(removed) THEN removed
                             ELSE Index_update_cache(removed.self, "add", m.reverse_mapping[item],
                                                     PyList(<< i >>), TRUE)
                    ELSE Ret(written, "None", << >>)

(* _set_item_by_int_index as it would be if the new item were interned before
   the position is checked: an out-of-range position then fails after the
   mappings have changed. *)
Index_set_item_by_int_index_interning_first(self, item, index, verify_item) ==
  IF verify_item /\ Index_verify_item(item) # "None"
  THEN Ret(self, Index_verify_item(item), << >>)
  ELSE LET m == IF item \notin DOMAIN self.reverse_mapping
                THEN Index_update_mappings_with_single_item(self, item, FALSE).self
                ELSE self
           i == IF index < 0 THEN Index_len(self) + index ELSE index
       IN  IF i >= Index_len(self) \/ i < 0 THEN Ret(m, "IndexError", << >>)
           ELSE LET written == [m EXCEPT !.index[i + 1] = m.reverse_mapping[item]]
                IN  IF written.cached
                    THEN LET removed == Index_update_cache(written, "remove", m.index[i + 1],
                                                           PyList(<< i >>), TRUE)
                         IN  IF Raised(removed) THEN removed
                             ELSE Index_update_cache(removed.self, "add", m.reverse_mapping[item],
                                                     PyList(<< i >>), TRUE)
                    ELSE Ret(written, "None", << >>)

Index_set_item_by_int_index(self, item, index, verify_item) ==
  IF verify_item /\ Index_verify_item(item) # "None"
  THEN Ret(self, Index_verify_item(item), << >>)
  ELSE LET i == IF index < 0 THEN Index_len(self) + index ELSE index
       IN  IF i >= Index_len(self) \/ i < 0 THEN Ret(self, "IndexError", << >>)
           ELSE LET m == IF item \notin DOMAIN self.reverse_mapping
                         THEN Index_update_mappings_with_single_item(self, item, FALSE).self
                         ELSE self
                    internal_form == m.reverse_mapping[item]
                    previous_item_internal_form == m.index[i + 1]
                    written == [m EXCEPT !.index[i + 1] = internal_form]
                IN  IF written.cached
                    THEN LET removed == Index_update_cache(written, "remove",
                                          previous_item_internal_form, PyList(<< i >>), TRUE)
                         IN  IF Raised(removed) THEN removed
                             ELSE Index_update_cache(removed.self, "add", internal_form,
                                                     PyList(<< i >>), TRUE)
                    ELSE Ret(written, "None", << >>)

(* The loop "for index in indexes" of _set_items_by_int_indexes. *)
RECURSIVE Index_set_items_loop(_, _, _)
Index_set_items_loop(self, item, indexes) ==
  IF indexes = << >> THEN Ret(self, "None", << >>)
  ELSE LET r == Index_set_item_by_int_index(self, item, Head(indexes), FALSE)
       IN  IF Raised(r) THEN r ELSE Index_set_items_loop(r.self, item, Tail(indexes))

Index_set_items_by_int_indexes(self, item, indexes) ==
  IF Index_verify_item(item) # "None" THEN Ret(self, Index_verify_item(item), << >>)
  ELSE Index_set_items_loop(self, item, indexes)

RECURSIVE Index_mask_loop(_, _)
Index_mask_loop(mask, i) ==
  IF i > Len(mask) THEN << >>
  ELSE (IF mask[i] THEN << i - 1 >> ELSE << >>) \o Index_mask_loop(mask, i + 1)

(* _get_int_indexes_from_mask, for a list of booleans. *)
Index_get_int_indexes_from_mask(self, mask) ==
  IF Len(mask) # Index_len(self) THEN Ret(self, "IndexError", << >>)
  ELSE Ret(self, "list", Index_mask_loop(mask, 1))

(* The while loop of _get_int_indexes_from_slice. *)
RECURSIVE SliceWalk(_, _, _)
SliceWalk(start, stop, step) ==
  IF (step > 0 /\ start < stop) \/ (step < 0 /\ start > stop)
  THEN << start >> \o SliceWalk(start + step, stop, step)
  ELSE << >>

(* The loop as it would be if it went on through stop itself. *)
RECURSIVE SliceWalk_through_stop(_, _, _)
SliceWalk_through_stop(start, stop, step) ==
  IF (step > 0 /\ start <= stop) \/ (step < 0 /\ start >= stop)
  THEN << start >> \o SliceWalk_through_stop(start + step, stop, step)
  ELSE << >>

Get_int_indexes_from_slice_through_stop(length, start, stop, step) ==
  LET step1 == IF step = None THEN 1 ELSE step[1]
      start1 == IF start = None THEN (IF step1 > 0 THEN 0 ELSE length - 1) ELSE start[1]
      stop1 == IF stop = None THEN (IF step1 > 0 THEN length ELSE -1) ELSE stop[1]
  IN  SliceWalk_through_stop(start1, stop1, step1)

(* _get_int_indexes_from_slice(slice(start, stop, step)), for a length. *)
Get_int_indexes_from_slice(length, start, stop, step) ==
  LET step1 == IF step = None THEN 1 ELSE step[1]
      start1 == IF start = None THEN (IF step1 > 0 THEN 0 ELSE length - 1) ELSE start[1]
      stop1 == IF stop = None THEN (IF step1 > 0 THEN length ELSE -1) ELSE stop[1]
  IN  SliceWalk(start1, stop1, step1)

Index_get_int_indexes_from_slice(self, start, stop, step) ==
  Get_int_indexes_from_slice(Index_len(self), start, stop, step)

(* __setitem__, for each shape of selector. *)
Index_setitem_int(self, index, item) == Index_set_item_by_int_index(self, item, index, TRUE)

Index_setitem_list(self, index, item) ==
  IF index = << >> THEN Ret(self, "IndexError", << >>)
  ELSE Index_set_items_by_int_indexes(self, item, index)

Index_setitem_mask(self, index, item) ==
  IF index = << >> THEN Ret(self, "IndexError", << >>)
  ELSE LET m == Index_get_int_indexes_from_mask(self, index)
       IN  IF Raised(m) THEN m ELSE Index_set_items_by_int_indexes(self, item, m.val)

Index_setitem_slice(self, start, stop, step, item) ==
  Index_set_items_by_int_indexes(self, item, Index_get_int_indexes_from_slice(self, start, stop, step))

-----------------------------------------------------------------------------
(* Slices *)

(* The positions list[start:stop:step] visits, for a list of n items and step # 0
   (the bounds clamped as Python's slice.indices clamps them). *)
PySlicePositions(n, start, stop, step) ==
  LET Clamp(b, low, high) ==
        LET w == IF b < 0 THEN b + n ELSE b
        IN  IF w < low THEN low ELSE IF w > high THEN high ELSE w
  IN  IF step > 0
      THEN SliceWalk(IF start = None THEN 0 ELSE Clamp(start[1], 0, n),
                     IF stop = None THEN n ELSE Clamp(stop[1], 0, n), step)
      ELSE SliceWalk(IF start = None THEN n - 1 ELSE Clamp(start[1], -1, n - 1),
                     IF stop = None THEN -1 ELSE Clamp(stop[1], -1, n - 1), step)

(* Variants of the slice correction, for an index of `length` rows: bounds
   are rejected from `limit` on; with both bounds given, `swap` orders them
   by the sign of the step and `close` moves the stop bound one place on, so
   that the stop position is selected. *)
SliceVariant(length, start, stop, step, limit, swap, close) ==
  LET step1 == IF step = None THEN 1 ELSE step[1]
      Wrap(b) == IF b = None THEN None
                 ELSE IF b[1] < 0 THEN Some(length + b[1]) ELSE b
      OutOfBounds(b) == b # None /\ (0 > Wrap(b)[1] \/ Wrap(b)[1] >= limit)
      s == Wrap(start)
      t == Wrap(stop)
  IN  IF OutOfBounds(start) \/ OutOfBounds(stop) THEN [kind |-> "IndexError", val |-> << >>]
      ELSE IF s = None \/ t = None \/ step1 = 0
      THEN [kind |-> "slice", val |-> << s, t, Some(step1) >>]
      ELSE LET lo == IF s[1] > t[1] THEN t[1] ELSE s[1]
               hi == IF s[1] > t[1] THEN s[1] ELSE t[1]
               first == IF ~swap THEN s[1] ELSE IF step1 > 0 THEN lo ELSE hi
               final == IF ~swap THEN t[1] ELSE IF step1 > 0 THEN hi ELSE lo
               end == IF ~close THEN Some(final)
                      ELSE IF step1 > 0
                      THEN (IF final = length - 1 THEN None ELSE Some(final + 1))
                      ELSE (IF final = 0 THEN None ELSE Some(final - 1))
           IN  [kind |-> "slice", val |-> << Some(first), end, Some(step1) >>]

(* The bounds wrapped and checked, and nothing else: Python's own slice. *)
Get_correct_slice_uncorrected(length, start, stop, step) ==
  SliceVariant(length, start, stop, step, length, FALSE, FALSE)

(* The stop bound included, but the bounds left in the order given. *)
Get_correct_slice_keeping_order(length, start, stop, step) ==
  SliceVariant(length, start, stop, step, length, FALSE, TRUE)

(* A bound equal to the length accepted. *)
Get_correct_slice_accepting_len(length, start, stop, step) ==
  SliceVariant(length, start, stop, step, length + 1, TRUE, TRUE)

(* _get_correct_slice(slice(start, stop, step)) for an index of `length` rows:
   "IndexError", or the corrected << start, stop, step >>. *)
Get_correct_slice(length, start, stop, step) ==
  LET step1 == IF step = None THEN 1 ELSE step[1]
      Wrap(b) == IF b = None THEN None
                 ELSE IF b[1] < 0 THEN Some(length + b[1]) ELSE b
      OutOfBounds(b) == b # None /\ (0 > Wrap(b)[1] \/ Wrap(b)[1] >= length)
      s == Wrap(start)
      t == Wrap(stop)
  IN  IF OutOfBounds(start) \/ OutOfBounds(stop) THEN [kind |-> "IndexError", val |-> << >>]
      ELSE IF step1 > 0
      THEN IF s # None /\ t # None
           THEN LET lo == IF s[1] > t[1] THEN t[1] ELSE s[1]
                    hi == IF s[1] > t[1] THEN s[1] ELSE t[1]
                IN  [kind |-> "slice",
                     val |-> << Some(lo), IF hi = length - 1 THEN None ELSE Some(hi + 1), Some(step1) >>]
           ELSE IF t # None
           THEN [kind |-> "slice",
                 val |-> << s, IF t[1] = length - 1 THEN None ELSE Some(t[1] + 1), Some(step1) >>]
           ELSE [kind |-> "slice", val |-> << s, t, Some(step1) >>]
      ELSE IF step1 < 0
      THEN IF s # None /\ t # None
           THEN LET hi == IF s[1] < t[1] THEN t[1] ELSE s[1]
                    lo == IF s[1] < t[1] THEN s[1] ELSE t[1]
                IN  [kind |-> "slice",
                     val |-> << Some(hi), IF lo = 0 THEN None ELSE Some(lo - 1), Some(step1) >>]
           ELSE IF s = None /\ t # None
           THEN [kind |-> "slice",
                 val |-> << IF t[1] = length - 1 THEN None ELSE t, None, Some(step1) >>]
           ELSE [kind |-> "slice", val |-> << s, t, Some(step1) >>]
      ELSE [kind |-> "slice", val |-> << s, t, Some(step1) >>]

Index_get_correct_slice(self, start, stop, step) ==
  Get_correct_slice(Index_len(self), start, stop, step)

-----------------------------------------------------------------------------
(* Index: positional reads *)

Index_get_item_from_int_index(self, index) ==
  LET i == IF index < 0 THEN Index_len(self) + index ELSE index
  IN  IF i < 0 \/ i >= Index_len(self) THEN Ret(self, "TypeError", << >>)
      ELSE Ret(self, "item", << self.mapping[self.index[i + 1]] >>)

RECURSIVE Index_get_items_from_int_indexes(_, _)
Index_get_items_from_int_indexes(self, index) ==
  IF index = << >> THEN Ret(self, "list", << >>)
  ELSE LET r == Index_get_item_from_int_index(self, Head(index))
       IN  IF Raised(r) THEN r
           ELSE LET rest == Index_get_items_from_int_indexes(self, Tail(index))
                IN  IF Raised(rest) THEN rest ELSE Ret(self, "list", r.val \o rest.val)

Index_get_items_from_slice(self, start, stop, step) ==
  LET c == Index_get_correct_slice(self, start, stop, step)
  IN  IF c.kind = "IndexError" THEN Ret(self, "IndexError", << >>)
      ELSE IF c.val[3][1] = 0 THEN Ret(self, "ValueError", << >>)
      ELSE LET positions == PySlicePositions(Index_len(self), c.val[1], c.val[2], c.val[3][1])
           IN  Ret(self, "list",
                   [k \in 1 .. Len(positions) |-> self.mapping[self.index[positions[k] + 1]]])

(* __getitem__, for each shape of selector. *)
Index_getitem_int(self, index) == Index_get_item_from_int_index(self, index)

Index_getitem_list(self, index) ==
  IF index = << >> THEN Ret(self, "IndexError", << >>)
  ELSE Index_get_items_from_int_indexes(self, index)

Index_getitem_mask(self, index) ==
  IF index = << >> THEN Ret(self, "IndexError", << >>)
  ELSE LET m == Index_get_int_indexes_from_mask(self, index)
       IN  IF Raised(m) THEN m ELSE Index_get_items_from_int_indexes(self, m.val)

Index_getitem_slice(self, start, stop, step) == Index_get_items_from_slice(self, start, stop, step)

-----------------------------------------------------------------------------
(* MultiIndex: validation and the interning store (src/MultiIndex.py) *)

MultiIndex_verify_item(item) ==
  IF item = EmptyTuple THEN "IndexError"
  ELSE IF item = NaN THEN "TypeError"
  ELSE "None"

(* _verify_sequence, and the loop of _verify_tuple and _verify_new_row: the
   exception of the first item that is rejected. *)
RECURSIVE MultiIndex_verify_sequence(_)
MultiIndex_verify_sequence(sequence) ==
  IF sequence = << >> THEN "None"
  ELSE IF MultiIndex_verify_item(Head(sequence)) # "None"
  THEN MultiIndex_verify_item(Head(sequence))
  ELSE MultiIndex_verify_sequence(Tail(sequence))

MultiIndex_verify_tuple(tup) ==
  IF tup = << >> THEN "IndexError" ELSE MultiIndex_verify_sequence(tup)

MultiIndex_verify_length_of_sequences(sequences) ==
  IF sequences = << >> THEN "IndexError"
  ELSE IF \E i \in 1 .. Len(sequences) : Len(sequences[i]) # Len(sequences[1]) THEN "IndexError"
  ELSE "None"

(* _verify_sequences and _verify_tuples: every member, then the lengths. *)
RECURSIVE MultiIndex_verify_each(_, _)
MultiIndex_verify_each(sequences, are_tuples) ==
  IF sequences = << >> THEN "None"
  ELSE LET v == IF are_tuples THEN MultiIndex_verify_tuple(Head(sequences))
                ELSE MultiIndex_verify_sequence(Head(sequences))
       IN  IF v # "None" THEN v ELSE MultiIndex_verify_each(Tail(sequences), are_tuples)

MultiIndex_verify_sequences(sequences, check_len) ==
  IF MultiIndex_verify_each(sequences, FALSE) # "None"
  THEN MultiIndex_verify_each(sequences, FALSE)
  ELSE IF check_len THEN MultiIndex_verify_length_of_sequences(sequences)
  ELSE "None"

MultiIndex_verify_tuples(tuples) ==
  IF MultiIndex_verify_each(tuples, TRUE) # "None"
  THEN MultiIndex_verify_each(tuples, TRUE)
  ELSE MultiIndex_verify_length_of_sequences(tuples)

(* __len__: the length of the first column. *)
MultiIndex_len(self) == Len(self.multiindex[1])

(* The items of the sequences in the order the nested loops first see them. *)
RECURSIVE FirstSeen(_, _)
FirstSeen(items, seen) ==
  IF items = << >> THEN seen
  ELSE FirstSeen(Tail(items), IF Contains(seen, Head(items)) THEN seen ELSE Append(seen, Head(items)))

RECURSIVE Flatten(_)
Flatten(sequences) ==
  IF sequences = << >> THEN << >> ELSE Head(sequences) \o Flatten(Tail(sequences))

(* The mapping and reverse mapping _create_multiindex builds from the items
   visited in `order`. *)
RECURSIVE Create_mappings(_, _, _)
Create_mappings(order, mapping, reverse_mapping) ==
  IF order = << >> THEN [mapping |-> mapping, reverse_mapping |-> reverse_mapping]
  ELSE LET numerical_index == Cardinality(DOMAIN mapping)
       IN  Create_mappings(Tail(order), DictSet(mapping, numerical_index, Head(order)),
                           DictSet(reverse_mapping, Head(order), numerical_index))

(* _create_multiindex; order enumerates the set unique_items. *)
MultiIndex_create_multiindex(sequences, memory_efficient, order) ==
  LET m == Create_mappings(IF memory_efficient THEN FirstSeen(Flatten(sequences), << >>) ELSE order,
                           EmptyDict, EmptyDict)
  IN  [data |-> [s \in 1 .. Len(sequences) |->
                   [i \in 1 .. Len(sequences[s]) |-> m.reverse_mapping[sequences[s][i]]]],
       mapping |-> m.mapping, reverse_mapping |-> m.reverse_mapping]

(* The new value stored under a new key, but looked up under key 0. *)
MultiIndex_update_mappings_reusing_key(self, new_mapping) ==
  IF new_mapping \notin DOMAIN self.reverse_mapping
  THEN LET length == Cardinality(DOMAIN self.mapping)
       IN  [self EXCEPT !.mapping = DictSet(self.mapping, length, new_mapping),
                        !.reverse_mapping = DictSet(self.reverse_mapping, new_mapping, 0)]
  ELSE self

MultiIndex_update_mappings_with_single_item(self, new_mapping) ==
  IF new_mapping \notin DOMAIN self.reverse_mapping
  THEN LET length == Cardinality(DOMAIN self.mapping)
       IN  [self EXCEPT !.mapping = DictSet(self.mapping, length, new_mapping),
                        !.reverse_mapping = DictSet(self.reverse_mapping, new_mapping, length)]
  ELSE self

RECURSIVE MultiIndex_update_mappings_loop(_, _)
MultiIndex_update_mappings_loop(self, order) ==
  IF order = << >> THEN self
  ELSE MultiIndex_update_mappings_loop(
         MultiIndex_update_mappings_with_single_item(self, Head(order)), Tail(order))

(* update_mappings_with, for a list; order is list(set(new_mappings)). *)
MultiIndex_update_mappings_with(self, order) ==
  IF MultiIndex_verify_sequence(order) # "None"
  THEN Ret(self, MultiIndex_verify_sequence(order), << >>)
  ELSE Ret(MultiIndex_update_mappings_loop(self, order), "None", << >>)

MultiIndex_verify_new_row(self, new_row) ==
  IF Len(new_row) # self.levels THEN "IndexError" ELSE MultiIndex_verify_sequence(new_row)

(* _get_internal_form_by_int_index; a negative index counts from the end of
   each column, as list indexing does. *)
MultiIndex_get_internal_form_by_int_index(self, index) ==
  IF index >= MultiIndex_len(self) \/ index < 0 - MultiIndex_len(self)
  THEN Ret(self, "IndexError", << >>)
  ELSE LET i == IF index < 0 THEN MultiIndex_len(self) + index ELSE index
       IN  Ret(self, "tuple", [level \in 1 .. self.levels |-> self.multiindex[level][i + 1]])

-----------------------------------------------------------------------------
(* MultiIndex: the cache *)

RECURSIVE MultiIndex_create_cache_loop(_, _, _)
MultiIndex_create_cache_loop(self, row_index, cache) ==
  IF row_index >= MultiIndex_len(self) THEN cache
  ELSE LET row == [level \in 1 .. self.levels |-> self.multiindex[level][row_index + 1]]
       IN  MultiIndex_create_cache_loop(self, row_index + 1,
             IF row \notin DOMAIN cache THEN DictSet(cache, row, << row_index >>)
             ELSE DictSet(cache, row, Append(cache[row], row_index)))

MultiIndex_create_cache(self) ==
  [self EXCEPT !.cached = TRUE, !.cache = MultiIndex_create_cache_loop(self, 0, EmptyDict)]

MultiIndex_flush_cache(self) == [self EXCEPT !.cached = FALSE, !.cache = EmptyDict]

(* "if self._cache": the cache is a dict and is not empty. *)
MultiIndex_cache_truthy(self) == self.cached /\ DOMAIN self.cache # {}

RECURSIVE MultiIndex_update_cache_rows(_, _, _, _)
MultiIndex_update_cache_rows(self, operation, internal_form, rows) ==
  IF rows = << >> THEN Ret(self, "None", << >>)
  ELSE LET row == Head(rows)
       IN  IF row >= MultiIndex_len(self) THEN Ret(self, "IndexError", << >>)
           ELSE IF operation = "add"
           THEN MultiIndex_update_cache_rows(
                  [self EXCEPT !.cache =
                     IF internal_form \in DOMAIN self.cache
                     THEN DictSet(self.cache, internal_form, Append(self.cache[internal_form], row))
                     ELSE DictSet(self.cache, internal_form, << row >>)],
                  operation, internal_form, Tail(rows))
           ELSE IF internal_form \notin DOMAIN self.cache THEN Ret(self, "KeyError", << >>)
           ELSE IF ~Contains(self.cache[internal_form], row) THEN Ret(self, "ValueError", << >>)
           ELSE MultiIndex_update_cache_rows(
                  [self EXCEPT !.cache =
                     DictSet(self.cache, internal_form, ListRemove(self.cache[internal_form], row))],
                  operation, internal_form, Tail(rows))

(* _update_cache with operation_args = {tup : rows}. *)
MultiIndex_update_cache(self, operation, tup, rows, by_internal_form) ==
  IF ~self.cached THEN Ret(self, "None", << >>)
  ELSE IF ~by_internal_form /\ \E i \in 1 .. Len(tup) : tup[i] \notin DOMAIN self.reverse_mapping
  THEN Ret(self, "KeyError", << >>)
  ELSE LET internal_form == IF by_internal_form THEN tup
                            ELSE [i \in 1 .. Len(tup) |-> self.reverse_mapping[tup[i]]]
           r == MultiIndex_update_cache_rows(self, operation, internal_form, rows)
       IN  IF Raised(r) THEN r
           ELSE IF internal_form \notin DOMAIN r.self.cache THEN Ret(r.self, "KeyError", << >>)
           ELSE Ret([r.self EXCEPT !.cache =
                       DictSet(r.self.cache, internal_form, ListSort(r.self.cache[internal_form]))],
                    "None", << >>)

-----------------------------------------------------------------------------
(* MultiIndex: construction and reads *)

(* The names setter without its check for duplicates. *)
MultiIndex_names_check_allowing_duplicates(self, names) ==
  IF names = << >> THEN "None"
  ELSE IF MultiIndex_verify_sequence(names) # "None" THEN MultiIndex_verify_sequence(names)
  ELSE IF Len(names) # self.levels THEN "IndexError"
  ELSE "None"

(* The names setter: the exception it raises, or "None". *)
MultiIndex_names_check(self, names) ==
  IF names = << >> THEN "None"
  ELSE IF MultiIndex_verify_sequence(names) # "None" THEN MultiIndex_verify_sequence(names)
  ELSE IF Len(names) # self.levels THEN "IndexError"
  ELSE IF Len(names) # Cardinality(SeqSet(names)) THEN "ValueError"
  ELSE "None"

MultiIndex_set_names(self, names) ==
  IF MultiIndex_names_check(self, names) # "None"
  THEN Ret(self, MultiIndex_names_check(self, names), << >>)
  ELSE Ret([self EXCEPT !.names = names], "None", << >>)

(* MultiIndex(index, cache, names, memory_efficient), for a non-empty list of
   columns; order enumerates the set of their items.  No names is << >>. *)
MultiIndex_init(index, cache, names, memory_efficient, order) ==
  LET c == MultiIndex_create_multiindex(index, memory_efficient, order)
      self == [multiindex |-> c.data, mapping |-> c.mapping,
               reverse_mapping |-> c.reverse_mapping, levels |-> Len(c.data),
               cached |-> FALSE, cache |-> EmptyDict, names |-> << >>]
      named == MultiIndex_set_names(self, names)
  IN  IF Raised(named) THEN named
      ELSE IF ~cache THEN named
      ELSE IF \E level \in 1 .. self.levels : Len(self.multiindex[level]) < MultiIndex_len(self)
      THEN Ret(self, "IndexError", << >>)
      ELSE Ret(MultiIndex_create_cache(named.self), "None", << >>)

(* The columns with the rows in reverse order. *)
MultiIndex_rows_to_long_columns_reversed(rows) ==
  [i \in 1 .. Len(rows[1]) |-> [r \in 1 .. Len(rows) |-> rows[Len(rows) + 1 - r][i]]]

MultiIndex_rows_to_long_columns(rows) ==
  [i \in 1 .. Len(rows[1]) |-> [r \in 1 .. Len(rows) |-> rows[r][i]]]

MultiIndex_from_tuples(index, names, cache, memory_efficient, order) ==
  IF MultiIndex_verify_tuples(index) # "None"
  THEN Ret(<< >>, MultiIndex_verify_tuples(index), << >>)
  ELSE MultiIndex_init(MultiIndex_rows_to_long_columns(index), cache, names, memory_efficient, order)

MultiIndex_from_lists(index, names, cache, memory_efficient, order) ==
  IF MultiIndex_verify_sequences(index, TRUE) # "None"
  THEN Ret(<< >>, MultiIndex_verify_sequences(index, TRUE), << >>)
  ELSE MultiIndex_init(index, cache, names, memory_efficient, order)

(* The product with the first sequence varying fastest. *)
RECURSIVE Itertools_product_first_fastest(_)
Itertools_product_first_fastest(index) ==
  IF index = << >> THEN << << >> >>
  ELSE LET rest == Itertools_product_first_fastest(Tail(index))
       IN  [k \in 1 .. Len(Head(index)) * Len(rest) |->
              << Head(index)[((k - 1) % Len(Head(index))) + 1] >>
                \o rest[((k - 1) \div Len(Head(index))) + 1]]

(* itertools.product over the sequences of index, as a list: the nested
   loops over the sequences, the first sequence outermost. *)
RECURSIVE Itertools_product(_)
Itertools_product(index) ==
  IF index = << >> THEN << << >> >>
  ELSE LET rest == Itertools_product(Tail(index))
       IN  [k \in 1 .. Len(Head(index)) * Len(rest) |->
              << Head(index)[((k - 1) \div Len(rest)) + 1] >> \o rest[((k - 1) % Len(rest)) + 1]]

(* from_product; rows_to_long_columns reads rows[0], which an empty product
   does not have. *)
MultiIndex_from_product(index, names, cache, memory_efficient, order) ==
  IF ~(Len(index) > 1) THEN Ret(<< >>, "IndexError", << >>)
  ELSE IF MultiIndex_verify_sequences(index, FALSE) # "None"
  THEN Ret(<< >>, MultiIndex_verify_sequences(index, FALSE), << >>)
  ELSE IF Itertools_product(index) = << >> THEN Ret(<< >>, "IndexError", << >>)
  ELSE MultiIndex_init(MultiIndex_rows_to_long_columns(Itertools_product(index)),
                       cache, names, memory_efficient, order)

MultiIndex_to_tuples(self) ==
  [row_index \in 1 .. MultiIndex_len(self) |->
     [level \in 1 .. self.levels |-> self.mapping[self.multiindex[level][row_index]]]]

(* is_unique *)
MultiIndex_is_unique(self) ==
  IF MultiIndex_cache_truthy(self) THEN MultiIndex_len(self) = Cardinality(DOMAIN self.cache)
  ELSE MultiIndex_len(self) = Cardinality(SeqSet(MultiIndex_to_tuples(self)))

(* verify_integrity: the three checks, each "Ok" or "Compromised", in the
   order reported: internal multiindex state, mapping integrity, reverse
   mapping integrity. *)
IntegrityChecker(ok) == IF ok THEN "Ok" ELSE "Compromised"

MultiIndex_verify_integrity(self, full) ==
  LET mapping_keys == DOMAIN self.mapping
      reverse_mapping_keys == DOMAIN self.reverse_mapping
      reverse_mapping_values == {self.reverse_mapping[v] : v \in reverse_mapping_keys}
      lengths == {Len(self.multiindex[level]) : level \in 1 .. Len(self.multiindex)}
      all_mapping_keys == UNION {SeqSet(self.multiindex[level]) : level \in 1 .. Len(self.multiindex)}
      internal_multiindex_state == Cardinality(lengths) = 1
      mapping_integrity ==
        /\ \A key \in all_mapping_keys : key \in mapping_keys /\ key \in reverse_mapping_values
        /\ Cardinality(mapping_keys) = Cardinality({self.mapping[k] : k \in mapping_keys})
      reverse_mapping_integrity ==
        /\ \A mapping_key \in mapping_keys :
             /\ self.mapping[mapping_key] \in reverse_mapping_keys
             /\ self.reverse_mapping[self.mapping[mapping_key]] = mapping_key
        /\ full =>
             \A reverse_mapping_key \in reverse_mapping_keys :
               /\ self.reverse_mapping[reverse_mapping_key] \in mapping_keys
               /\ self.mapping[self.reverse_mapping[reverse_mapping_key]] = reverse_mapping_key
  IN  << IntegrityChecker(internal_multiindex_state),
         IntegrityChecker(mapping_integrity),
         IntegrityChecker(reverse_mapping_integrity) >>

(* The linear scan of get_loc: the first row equal to internal_form, as << row >>,
   or << >> when the loop ends without returning. *)
RECURSIVE MultiIndex_get_loc_scan(_, _, _, _)
MultiIndex_get_loc_scan(self, internal_form, get_all, row_index) ==
  IF row_index >= MultiIndex_len(self) THEN << >>
  ELSE IF (\A level \in 1 .. Len(internal_form) :
             internal_form[level] = self.multiindex[level][row_index + 1]) /\ ~get_all
  THEN << row_index >>
  ELSE MultiIndex_get_loc_scan(self, internal_form, get_all, row_index + 1)

MultiIndex_get_loc(self, tup, get_all, give_error) ==
  IF MultiIndex_verify_tuple(tup) # "None" THEN Ret(self, MultiIndex_verify_tuple(tup), << >>)
  ELSE IF Len(tup) # self.levels THEN Ret(self, "IndexError", << >>)
  ELSE IF \E i \in 1 .. Len(tup) : tup[i] \notin DOMAIN self.reverse_mapping
  THEN (IF give_error THEN Ret(self, "KeyError", << >>) ELSE Ret(self, "None", << >>))
  ELSE LET internal_form == [i \in 1 .. Len(tup) |-> self.reverse_mapping[tup[i]]]
           not_found == IF give_error THEN Ret(self, "ValueError", << >>)
                        ELSE Ret(self, "None", << >>)
       IN  IF ~MultiIndex_cache_truthy(self)
           THEN LET found == MultiIndex_get_loc_scan(self, internal_form, get_all, 0)
                IN  IF found # << >> THEN Ret(self, "int", found) ELSE not_found
           ELSE IF ~get_all
           THEN IF internal_form \in DOMAIN self.cache /\ self.cache[internal_form] # << >>
                THEN Ret(self, "int", << self.cache[internal_form][1] >>)
                ELSE not_found
           ELSE IF internal_form \notin DOMAIN self.cache THEN Ret(self, "KeyError", << >>)
           ELSE Ret(self, "list", self.cache[internal_form])

(* __contains__, for a tuple: with a cache that holds a key, whether the
   internal form is a key of the cache; otherwise whether get_loc finds it. *)
MultiIndex_contains(self, item) ==
  IF self.levels # Len(item) THEN FALSE
  ELSE IF MultiIndex_cache_truthy(self)
  THEN IF \E i \in 1 .. Len(item) : item[i] \notin DOMAIN self.reverse_mapping THEN FALSE
       ELSE [i \in 1 .. Len(item) |-> self.reverse_mapping[item[i]]] \in DOMAIN self.cache
  ELSE ~Raised(MultiIndex_get_loc(self, item, FALSE, TRUE))

(* get_row_by_int_index; a position below -len is read by list indexing. *)
MultiIndex_get_row_by_int_index(self, index) ==
  LET i == IF index < 0 THEN MultiIndex_len(self) + index ELSE index
  IN  IF i >= MultiIndex_len(self) THEN Ret(self, "IndexError", << >>)
      ELSE IF i < 0 - MultiIndex_len(self) THEN Ret(self, "IndexError", << >>)
      ELSE LET j == IF i < 0 THEN MultiIndex_len(self) + i ELSE i
           IN  Ret(self, "tuple",
                   [level \in 1 .. self.levels |-> self.mapping[self.multiindex[level][j + 1]]])

RECURSIVE MultiIndex_get_rows_by_int_index(_, _)
MultiIndex_get_rows_by_int_index(self, index) ==
  IF index = << >> THEN Ret(self, "list", << >>)
  ELSE LET r == MultiIndex_get_row_by_int_index(self, Head(index))
       IN  IF Raised(r) THEN r
           ELSE LET rest == MultiIndex_get_rows_by_int_index(self, Tail(index))
                IN  IF Raised(rest) THEN rest ELSE Ret(self, "list", << r.val >> \o rest.val)

MultiIndex_get_row_indexes_from_mask(self, index) ==
  IF Len(index) # MultiIndex_len(self) THEN Ret(self, "IndexError", << >>)
  ELSE Ret(self, "list", Index_mask_loop(index, 1))

MultiIndex_get_correct_slice(self, start, stop, step) ==
  Get_correct_slice(MultiIndex_len(self), start, stop, step)

MultiIndex_get_rows_by_slice(self, start, stop, step) ==
  LET c == MultiIndex_get_correct_slice(self, start, stop, step)
  IN  IF c.kind = "IndexError" THEN Ret(self, "IndexError", << >>)
      ELSE IF c.val[3][1] = 0 THEN Ret(self, "ValueError", << >>)
      ELSE LET positions == PySlicePositions(MultiIndex_len(self), c.val[1], c.val[2], c.val[3][1])
           IN  Ret(self, "list",
                   [k \in 1 .. Len(positions) |->
                      [level \in 1 .. self.levels |->
                         self.mapping[self.multiindex[level][positions[k] + 1]]]])

(* __getitem__, for each shape of selector. *)
MultiIndex_getitem_int(self, index) == MultiIndex_get_row_by_int_index(self, index)

MultiIndex_getitem_list(self, index) ==
  IF index = << >> THEN Ret(self, "IndexError", << >>)
  ELSE MultiIndex_get_rows_by_int_index(self, index)

MultiIndex_getitem_mask(self, index) ==
  IF index = << >> THEN Ret(self, "IndexError", << >>)
  ELSE LET m == MultiIndex_get_row_indexes_from_mask(self, index)
       IN  IF Raised(m) THEN m ELSE MultiIndex_get_rows_by_int_index(self, m.val)

MultiIndex_getitem_slice(self, start, stop, step) ==
  MultiIndex_get_rows_by_slice(self, start, stop, step)

-----------------------------------------------------------------------------
(* MultiIndex: row writes *)

(* The loop "for level, item in enumerate(new_data)" of _set_int_index: each
   column is written at `index` by list assignment. *)
MultiIndex_write_row(self, index, new_data) ==
  IF index >= MultiIndex_len(self) \/ index < 0 - MultiIndex_len(self)
  THEN Ret(self, "IndexError", << >>)
  ELSE LET i == IF index < 0 THEN MultiIndex_len(self) + index ELSE index
       IN  Ret([self EXCEPT !.multiindex =
                  [level \in 1 .. Len(self.multiindex) |->
                     IF level <= Len(new_data)
                     THEN [self.multiindex[level] EXCEPT ![i + 1] = self.reverse_mapping[new_data[level]]]
                     ELSE self.multiindex[level]]],
               "None", << >>)

(* _set_int_index; order is list(set(new_data)). *)
MultiIndex_set_int_index(self, index, new_data, verify_data, update_mappings, order) ==
  IF verify_data /\ MultiIndex_verify_new_row(self, new_data) # "None"
  THEN Ret(self, MultiIndex_verify_new_row(self, new_data), << >>)
  ELSE LET m == IF update_mappings THEN MultiIndex_update_mappings_with(self, order)
                ELSE Ret(self, "None", << >>)
       IN  IF Raised(m) THEN m
           ELSE LET old == MultiIndex_get_row_by_int_index(m.self, index)
                IN  IF Raised(old) THEN old
                    ELSE LET removed == MultiIndex_update_cache(m.self, "remove", old.val,
                                                               << index >>, FALSE)
                         IN  IF Raised(removed) THEN removed
                             ELSE LET added == MultiIndex_update_cache(removed.self, "add", new_data,
                                                                      << index >>, FALSE)
                                  IN  IF Raised(added) THEN added
                                      ELSE MultiIndex_write_row(added.self, index, new_data)

RECURSIVE MultiIndex_set_multiple_loop(_, _, _)
MultiIndex_set_multiple_loop(self, index, new_data) ==
  IF index = << >> THEN Ret(self, "None", << >>)
  ELSE LET r == MultiIndex_set_int_index(self, Head(index), new_data, FALSE, FALSE, << >>)
       IN  IF Raised(r) THEN r ELSE MultiIndex_set_multiple_loop(r.self, Tail(index), new_data)

(* _set_multiple_int_indexes; order is list(set(new_data)). *)
MultiIndex_set_multiple_int_indexes(self, index, new_data, order) ==
  IF MultiIndex_verify_new_row(self, new_data) # "None"
  THEN Ret(self, MultiIndex_verify_new_row(self, new_data), << >>)
  ELSE LET m == MultiIndex_update_mappings_with(self, order)
       IN  IF Raised(m) THEN m ELSE MultiIndex_set_multiple_loop(m.self, index, new_data)

(* The positions of the slice but for the first of them. *)
MultiIndex_get_int_indexes_without_first(self, start, stop, step) ==
  LET int_indexes == Get_int_indexes_from_slice(MultiIndex_len(self), start, stop, step)
  IN  IF int_indexes = << >> THEN << >> ELSE Tail(int_indexes)

MultiIndex_get_int_indexes_from_slice(self, start, stop, step) ==
  Get_int_indexes_from_slice(MultiIndex_len(self), start, stop, step)

(* The loop "for row_index in int_indexes" of _set_rows_by_slice. *)
RECURSIVE MultiIndex_set_rows_cache_loop(_, _, _)
MultiIndex_set_rows_cache_loop(self, int_indexes, new_data_internal_form) ==
  IF int_indexes = << >> THEN Ret(self, "None", << >>)
  ELSE LET row_index == Head(int_indexes)
           row_internal_form == MultiIndex_get_internal_form_by_int_index(self, row_index)
       IN  IF Raised(row_internal_form) THEN row_internal_form
           ELSE LET removed == MultiIndex_update_cache(self, "remove", row_internal_form.val,
                                                      << row_index >>, TRUE)
                IN  IF Raised(removed) THEN removed
                    ELSE LET added == MultiIndex_update_cache(removed.self, "add",
                                        new_data_internal_form, << row_index >>, TRUE)
                         IN  IF Raised(added) THEN added
                             ELSE MultiIndex_set_rows_cache_loop(added.self, Tail(int_indexes),
                                                                 new_data_internal_form)

(* column[corrected_slice] = [item_mapping] * len(column[corrected_slice]) *)
MultiIndex_write_slice(self, positions, new_data) ==
  [self EXCEPT !.multiindex =
     [level \in 1 .. Len(self.multiindex) |->
        [p \in 1 .. Len(self.multiindex[level]) |->
           IF Contains(positions, p - 1) THEN self.reverse_mapping[new_data[level]]
           ELSE self.multiindex[level][p]]]]

(* _set_rows_by_slice from the corrected slice c on; order is list(set(new_data)). *)
MultiIndex_set_rows_by_corrected_slice(self, c, new_data, order) ==
  IF c.kind = "IndexError" THEN Ret(self, "IndexError", << >>)
  ELSE IF MultiIndex_verify_new_row(self, new_data) # "None"
  THEN Ret(self, MultiIndex_verify_new_row(self, new_data), << >>)
  ELSE LET m == MultiIndex_update_mappings_with(self, order)
       IN  IF Raised(m) THEN m
           ELSE LET int_indexes == MultiIndex_get_int_indexes_from_slice(
                                     m.self, c.val[1], c.val[2], c.val[3])
                    new_data_internal_form ==
                      [i \in 1 .. Len(new_data) |-> m.self.reverse_mapping[new_data[i]]]
                    cached == MultiIndex_set_rows_cache_loop(m.self, int_indexes,
                                                             new_data_internal_form)
                IN  IF Raised(cached) THEN cached
                    ELSE IF c.val[3][1] = 0 THEN Ret(cached.self, "ValueError", << >>)
                    ELSE Ret(MultiIndex_write_slice(cached.self,
                               PySlicePositions(MultiIndex_len(cached.self),
                                                c.val[1], c.val[2], c.val[3][1]),
                               new_data),
                             "None", << >>)

(* _set_rows_by_slice(slice(start, stop, step), new_data) *)
MultiIndex_set_rows_by_slice(self, start, stop, step, new_data, order) ==
  MultiIndex_set_rows_by_corrected_slice(
    self, MultiIndex_get_correct_slice(self, start, stop, step), new_data, order)

(* __setitem__, for each shape of selector. *)
MultiIndex_setitem_int(self, index, new_data, order) ==
  MultiIndex_set_int_index(self, index, new_data, TRUE, TRUE, order)

MultiIndex_setitem_list(self, index, new_data, order) ==
  IF index = << >> THEN Ret(self, "IndexError", << >>)
  ELSE MultiIndex_set_multiple_int_indexes(self, index, new_data, order)

MultiIndex_setitem_mask(self, index, new_data, order) ==
  IF index = << >> THEN Ret(self, "IndexError", << >>)
  ELSE LET m == MultiIndex_get_row_indexes_from_mask(self, index)
       IN  IF Raised(m) THEN m
           ELSE MultiIndex_set_multiple_int_indexes(self, m.val, new_data, order)

MultiIndex_setitem_slice(self, start, stop, step, new_data, order) ==
  MultiIndex_set_rows_by_slice(self, start, stop, step, new_data, order)

-----------------------------------------------------------------------------
(* MultiIndex: extension and concatenation *)

MultiIndex_compare_names(self, second) ==
  IF self.names = << >> \/ second.names = << >> \/ self.levels # second.levels THEN FALSE
  ELSE \A i \in 1 .. Len(self.names) : Contains(second.names, self.names[i])

(* The levels of second put before the rows of first instead of after them. *)
RECURSIVE MultiIndex_add_levels_prepending(_, _, _, _, _)
MultiIndex_add_levels_prepending(first, second, aliased, names_match, level) ==
  IF level > first.levels THEN first
  ELSE LET seconds_level == IF aliased THEN first.multiindex[level] ELSE second.multiindex[level]
           level_to_extend == [k \in 1 .. Len(seconds_level) |->
                                 first.reverse_mapping[second.mapping[seconds_level[k]]]]
           target == IF names_match THEN FirstIndex(first.names, second.names[level]) ELSE level
       IN  MultiIndex_add_levels_prepending(
             [first EXCEPT !.multiindex[target] = level_to_extend \o first.multiindex[target]],
             second, aliased, names_match, level + 1)

(* The loop "for level in range(first._levels)" of _add_multiindexes.  aliased:
   second is the object first, so seconds_level is first's column as it is now. *)
RECURSIVE MultiIndex_add_levels(_, _, _, _, _)
MultiIndex_add_levels(first, second, aliased, names_match, level) ==
  IF level > first.levels THEN first
  ELSE LET seconds_level == IF aliased THEN first.multiindex[level] ELSE second.multiindex[level]
           level_to_extend == [k \in 1 .. Len(seconds_level) |->
                                 first.reverse_mapping[second.mapping[seconds_level[k]]]]
           target == IF names_match THEN FirstIndex(first.names, second.names[level]) ELSE level
       IN  MultiIndex_add_levels(
             [first EXCEPT !.multiindex[target] = first.multiindex[target] \o level_to_extend],
             second, aliased, names_match, level + 1)

RECURSIVE MultiIndex_add_cache_loop(_, _, _)
MultiIndex_add_cache_loop(first, row_index, range_stop) ==
  IF row_index >= range_stop THEN Ret(first, "None", << >>)
  ELSE LET f == MultiIndex_get_internal_form_by_int_index(first, row_index)
       IN  IF Raised(f) THEN f
           ELSE LET added == MultiIndex_update_cache(first, "add", f.val, << row_index >>, TRUE)
                IN  IF Raised(added) THEN added
                    ELSE MultiIndex_add_cache_loop(added.self, row_index + 1, range_stop)

(* The end of _add_multiindexes: nothing is returned in place, else the copy. *)
MultiIndex_add_return(first, inplace, cached) ==
  IF inplace THEN Ret(cached.self, cached.kind, << >>)
  ELSE IF Raised(cached) THEN Ret(first, cached.kind, << >>)
  ELSE Ret(first, "MultiIndex", << cached.self >>)

(* "if first._cache:": the rows from len(first) - len(second) on are added. *)
MultiIndex_add_update_cache(extended, second_len) ==
  IF MultiIndex_cache_truthy(extended)
  THEN MultiIndex_add_cache_loop(extended, MultiIndex_len(extended) - second_len,
                                 MultiIndex_len(extended))
  ELSE Ret(extended, "None", << >>)

(* After the columns are extended; aliased: len(second) is len(first) as it is now. *)
MultiIndex_add_extended(first, second, aliased, inplace, extended) ==
  MultiIndex_add_return(first, inplace,
    MultiIndex_add_update_cache(extended, IF aliased THEN MultiIndex_len(extended)
                                          ELSE MultiIndex_len(second)))

(* After first.update_mappings_with(...), whose outcome is m. *)
MultiIndex_add_mapped(first, second, aliased, inplace, m) ==
  IF Raised(m) THEN Ret(IF inplace THEN m.self ELSE first, m.kind, << >>)
  ELSE MultiIndex_add_extended(first, second, aliased, inplace,
         MultiIndex_add_levels(m.self, second, aliased,
                               MultiIndex_compare_names(m.self, second), 1))

(* After "if not inplace: first = MultiIndex.from_tuples(first.to_tuples())",
   whose outcome is copy. *)
MultiIndex_add_copied(first, second, is_self, inplace, order, copy) ==
  IF Raised(copy) THEN Ret(first, copy.kind, << >>)
  ELSE MultiIndex_add_mapped(first, second, is_self /\ inplace, inplace,
                             MultiIndex_update_mappings_with(copy.self, order))

(* The level counts compared only after second's values are interned. *)
MultiIndex_add_multiindexes_checking_late(first, second, is_self, inplace, copy_order, order) ==
  IF first.levels # second.levels
  THEN Ret(IF inplace THEN MultiIndex_update_mappings_with(first, order).self ELSE first,
           "IndexError", << >>)
  ELSE MultiIndex_add_copied(first, second, is_self, inplace, order,
         IF inplace THEN Ret(first, "None", << >>)
         ELSE MultiIndex_from_tuples(MultiIndex_to_tuples(first), << >>, TRUE, FALSE, copy_order))

(* _add_multiindexes(first, second, inplace): self is first after the call and
   val the MultiIndex returned.  second is the operand as it is before the call;
   is_self: it is the object first.
   copy_order enumerates the items of first (the copy's interning order) and
   order is list(set(second._reverse_mapping.keys())). *)
MultiIndex_add_multiindexes(first, second, is_self, inplace, copy_order, order) ==
  IF first.levels # second.levels THEN Ret(first, "IndexError", << >>)
  ELSE MultiIndex_add_copied(first, second, is_self, inplace, order,
         IF inplace THEN Ret(first, "None", << >>)
         ELSE MultiIndex_from_tuples(MultiIndex_to_tuples(first), << >>, TRUE, FALSE, copy_order))

MultiIndex_extend(self, second, is_self, order) ==
  MultiIndex_add_multiindexes(self, second, is_self, TRUE, << >>, order)

MultiIndex_add(self, second, is_self, copy_order, order) ==
  MultiIndex_add_multiindexes(self, second, is_self, FALSE, copy_order, order)

-----------------------------------------------------------------------------
(* The program: it constructs one object, an Index or a MultiIndex of two
   levels, and then calls its operations in any order with any arguments. *)

VARIABLES
  made,   \* the class of the object constructed: "none", "Index" or "MultiIndex"
  idx,    \* the Index object (Index_empty until one is constructed)
  mi,     \* the MultiIndex object (MultiIndex_none until one is constructed)
  last    \* the name of the last call made

vars == << made, idx, mi, last >>

(* The value of mi while the program holds no MultiIndex. *)
MultiIndex_none ==
  [multiindex |-> << >>, mapping |-> EmptyDict, reverse_mapping |-> EmptyDict, levels |-> 0,
   cached |-> FALSE, cache |-> EmptyDict, names |-> << >>]

(* The arguments the calls are made with. *)
ItemInputs == Scalars \cup {NaN}
PosInputs == (0 - MaxLen - 1) .. MaxLen
ListInputs == SeqsUpTo(-1 .. MaxLen, MaxListLen)
MaskInputs == SeqsUpTo(BOOLEAN, MaxLen)
BoundInputs == {None} \cup {Some(n) : n \in PosInputs}
StepInputs == {None} \cup {Some(n) : n \in (0 - MaxStep) .. MaxStep}
SliceInputs == BoundInputs \X BoundInputs \X StepInputs
SequenceInputs == SeqsUpTo(ItemInputs, MaxLen)

RowPosInputs == (0 - MaxRows - 1) .. MaxRows
RowListInputs == SeqsUpTo(-1 .. MaxRows, MaxListLen)
RowMaskInputs == SeqsUpTo(BOOLEAN, MaxRows)
RowBoundInputs == {None} \cup {Some(n) : n \in RowPosInputs}
RowSliceInputs == RowBoundInputs \X RowBoundInputs \X StepInputs
(* A new row: every row of two scalars, a row with a rejected item, a row of
   the wrong length. *)
NewDataInputs == (Scalars \X Scalars) \cup {<< NaN, 1 >>, << 1 >>}
ColumnsInputs == SeqsUpTo(ItemInputs, MaxRows) \X SeqsUpTo(ItemInputs, MaxRows)
NamesInputs == {<< 1, 2 >>, << 1, 1 >>, << 1 >>}
(* The second operand of extend and +: a MultiIndex of two levels, or of one. *)
SecondInputs ==
  {r.self : r \in {x \in {MultiIndex_from_lists(c, n, FALSE, TRUE, << >>) :
                            c \in ColumnsInputs \cup {<< << 1 >> >>},
                            n \in {<< >>, << 1, 2 >>, << 2, 1 >>}} : ~Raised(x)}}

(* The orders in which a set of values may be interned: a value the store
   already holds is skipped, so only the order of the others is chosen. *)
InternOrders(reverse_mapping, values) == Orders(values \ DOMAIN reverse_mapping)

Init ==
  /\ made = "none"
  /\ idx = Index_empty
  /\ mi = MultiIndex_none
  /\ last = "start"

(* idx = Index(sequence, cache) *)
NewIndex ==
  /\ made = "none"
  /\ \E sequence \in SequenceInputs, cache \in BOOLEAN :
       \E order \in Orders(SeqSet(sequence)) :
         LET r == Index_init(sequence, cache, order)
         IN  /\ made' = IF Raised(r) THEN "none" ELSE "Index"
             /\ idx' = IF Raised(r) THEN Index_empty ELSE r.self
             /\ last' = "Index"
  /\ UNCHANGED mi

IndexExtend ==
  /\ made = "Index"
  /\ \E sequence \in SequenceInputs :
       \E order \in InternOrders(idx.reverse_mapping, SeqSet(sequence)) :
         LET r == Index_extend_index(idx, sequence, order)
         IN  /\ Index_len(idx) + Len(sequence) <= MaxLen
             /\ idx' = r.self
             /\ last' = "_extend_index"
  /\ UNCHANGED << made, mi >>

IndexAppend ==
  /\ made = "Index"
  /\ Index_len(idx) < MaxLen
  /\ \E item \in Items :
       LET r == Index_append(idx, item)
       IN  /\ idx' = r.self
           /\ last' = "_append"
  /\ UNCHANGED << made, mi >>

(* idx[index] = item, for a position *)
IndexSetInt ==
  /\ made = "Index"
  /\ \E index \in PosInputs, item \in Items :
       LET r == Index_setitem_int(idx, index, item)
       IN  /\ idx' = r.self
           /\ last' = "__setitem__"
  /\ UNCHANGED << made, mi >>

(* idx[index] = item, for a list of positions *)
IndexSetList ==
  /\ made = "Index"
  /\ \E index \in ListInputs, item \in ItemInputs :
       LET r == Index_setitem_list(idx, index, item)
       IN  /\ idx' = r.self
           /\ last' = "__setitem__"
  /\ UNCHANGED << made, mi >>

(* idx[index] = item, for a mask *)
IndexSetMask ==
  /\ made = "Index"
  /\ \E index \in MaskInputs, item \in ItemInputs :
       LET r == Index_setitem_mask(idx, index, item)
       IN  /\ idx' = r.self
           /\ last' = "__setitem__"
  /\ UNCHANGED << made, mi >>

(* idx[start:stop:step] = item: __setitem__ expands the slice to positions
   and sets them. *)
IndexSetSlice ==
  /\ made = "Index"
  /\ \E item \in ItemInputs,
        indexes \in {Index_get_int_indexes_from_slice(idx, sl[1], sl[2], sl[3]) : sl \in SliceInputs} :
       LET r == Index_set_items_by_int_indexes(idx, item, indexes)
       IN  /\ idx' = r.self
           /\ last' = "__setitem__"
  /\ UNCHANGED << made, mi >>

IndexGetLoc ==
  /\ made = "Index"
  /\ \E index \in Items, get_all \in BOOLEAN, give_error \in BOOLEAN :
       LET r == Index_get_loc(idx, index, get_all, give_error)
       IN  /\ idx' = r.self
           /\ last' = "get_loc"
  /\ UNCHANGED << made, mi >>

(* idx[index], for each shape of selector *)
IndexGetItem ==
  /\ made = "Index"
  /\ \E r \in {Index_getitem_int(idx, index) : index \in PosInputs}
          \cup {Index_getitem_list(idx, index) : index \in ListInputs}
          \cup {Index_getitem_mask(idx, index) : index \in MaskInputs}
          \cup {Index_getitem_slice(idx, sl[1], sl[2], sl[3]) : sl \in SliceInputs} :
       /\ idx' = r.self
       /\ last' = "__getitem__"
  /\ UNCHANGED << made, mi >>

(* mi = MultiIndex.from_lists(index, cache = cache, memory_efficient = memory_efficient) *)
NewMultiIndex ==
  /\ made = "none"
  /\ \E index \in ColumnsInputs, cache \in BOOLEAN, memory_efficient \in BOOLEAN :
       \E order \in Orders(SeqSet(index[1]) \cup SeqSet(index[2])) :
         LET r == MultiIndex_from_lists(index, << >>, cache, memory_efficient, order)
         IN  /\ made' = IF Raised(r) THEN "none" ELSE "MultiIndex"
             /\ mi' = IF Raised(r) THEN MultiIndex_none ELSE r.self
             /\ last' = "MultiIndex"
  /\ UNCHANGED idx

(* mi = MultiIndex.from_lists(index, names, cache) *)
NewNamedMultiIndex ==
  /\ made = "none"
  /\ \E index \in ColumnsInputs, names \in NamesInputs, cache \in BOOLEAN :
       \E order \in Orders(SeqSet(index[1]) \cup SeqSet(index[2])) :
         LET r == MultiIndex_from_lists(index, names, cache, TRUE, order)
         IN  /\ made' = IF Raised(r) THEN "none" ELSE "MultiIndex"
             /\ mi' = IF Raised(r) THEN MultiIndex_none ELSE r.self
             /\ last' = "MultiIndex"
  /\ UNCHANGED idx

(* The sequences from_product is called with: one to MaxProductLevels
   sequences of up to MaxRows items. *)
ProductInputs == UNION {[1 .. n -> SeqsUpTo(ItemInputs, MaxRows)] : n \in 1 .. MaxProductLevels}

(* mi = MultiIndex.from_product(index, cache = cache, memory_efficient = memory_efficient) *)
NewProductMultiIndex ==
  /\ made = "none"
  /\ \E index \in ProductInputs, cache \in BOOLEAN, memory_efficient \in BOOLEAN :
       \E order \in Orders(SeqSet(Flatten(index))) :
         LET r == MultiIndex_from_product(index, << >>, cache, memory_efficient, order)
         IN  /\ made' = IF Raised(r) THEN "none" ELSE "MultiIndex"
             /\ mi' = IF Raised(r) THEN MultiIndex_none ELSE r.self
             /\ last' = "from_product"
  /\ UNCHANGED idx

(* The row tuples from_tuples is called with: valid rows of one or two items,
   rows with a rejected item, empty rows, rows of unequal length. *)
TuplesInputs == SeqsUpTo(SeqsUpTo(ItemInputs, MaxListLen), MaxRows)

(* mi = MultiIndex.from_tuples(index, cache = cache, memory_efficient = memory_efficient) *)
NewTuplesMultiIndex ==
  /\ made = "none"
  /\ \E index \in TuplesInputs, cache \in BOOLEAN, memory_efficient \in BOOLEAN :
       \E order \in Orders(SeqSet(Flatten(index))) :
         LET r == MultiIndex_from_tuples(index, << >>, cache, memory_efficient, order)
         IN  /\ made' = IF Raised(r) THEN "none" ELSE "MultiIndex"
             /\ mi' = IF Raised(r) THEN MultiIndex_none ELSE r.self
             /\ last' = "from_tuples"
  /\ UNCHANGED idx

(* The names the setter is called with; << >> is no names. *)
NamesSetterInputs == SeqsUpTo(ItemInputs, MaxProductLevels)

(* mi.names = names *)
MultiSetNames ==
  /\ made = "MultiIndex"
  /\ \E names \in NamesSetterInputs :
       LET r == MultiIndex_set_names(mi, names)
       IN  /\ mi' = r.self
           /\ last' = "names"
  /\ UNCHANGED << made, idx >>

(* mi[index] = new_data, for a position *)
MultiSetInt ==
  /\ made = "MultiIndex"
  /\ \E index \in RowPosInputs, new_data \in NewDataInputs :
       \E order \in InternOrders(mi.reverse_mapping, SeqSet(new_data)) :
         LET r == MultiIndex_setitem_int(mi, index, new_data, order)
         IN  /\ mi' = r.self
             /\ last' = "__setitem__"
  /\ UNCHANGED << made, idx >>

(* mi[index] = new_data, for a list of positions *)
MultiSetList ==
  /\ made = "MultiIndex"
  /\ \E index \in RowListInputs, new_data \in NewDataInputs :
       \E order \in InternOrders(mi.reverse_mapping, SeqSet(new_data)) :
         LET r == MultiIndex_setitem_list(mi, index, new_data, order)
         IN  /\ mi' = r.self
             /\ last' = "__setitem__"
  /\ UNCHANGED << made, idx >>

(* mi[index] = new_data, for a mask *)
MultiSetMask ==
  /\ made = "MultiIndex"
  /\ \E index \in RowMaskInputs, new_data \in NewDataInputs :
       \E order \in InternOrders(mi.reverse_mapping, SeqSet(new_data)) :
         LET r == MultiIndex_setitem_mask(mi, index, new_data, order)
         IN  /\ mi' = r.self
             /\ last' = "__setitem__"
  /\ UNCHANGED << made, idx >>

(* mi[start:stop:step] = new_data: _set_rows_by_slice corrects the slice and
   writes the rows. *)
MultiSetSlice ==
  /\ made = "MultiIndex"
  /\ \E new_data \in NewDataInputs,
        c \in {MultiIndex_get_correct_slice(mi, sl[1], sl[2], sl[3]) : sl \in RowSliceInputs} :
       \E order \in InternOrders(mi.reverse_mapping, SeqSet(new_data)) :
         LET r == MultiIndex_set_rows_by_corrected_slice(mi, c, new_data, order)
         IN  /\ mi' = r.self
             /\ last' = "__setitem__"
  /\ UNCHANGED << made, idx >>

(* mi.extend(second), with another MultiIndex or with mi itself *)
MultiExtend ==
  /\ made = "MultiIndex"
  /\ \E second \in SecondInputs \cup {mi} :
       \E order \in InternOrders(mi.reverse_mapping, DOMAIN second.reverse_mapping) :
         LET r == MultiIndex_extend(mi, second, second = mi, order)
         IN  /\ second.levels # mi.levels
                  \/ MultiIndex_len(mi) + MultiIndex_len(second) <= MaxRows
             /\ mi' = r.self
             /\ last' = "extend"
  /\ UNCHANGED << made, idx >>

(* mi = mi + second *)
MultiAdd ==
  /\ made = "MultiIndex"
  /\ \E second \in SecondInputs \cup {mi} :
       \E copy_order \in Orders({mi.mapping[k] :
                                   k \in UNION {SeqSet(mi.multiindex[level]) : level \in 1 .. mi.levels}}) :
         \E order \in Orders(DOMAIN second.reverse_mapping \ SeqSet(copy_order)) :
           LET r == MultiIndex_add(mi, second, second = mi, copy_order, order)
           IN  /\ second.levels # mi.levels
                    \/ MultiIndex_len(mi) + MultiIndex_len(second) <= MaxRows
               /\ mi' = IF Raised(r) THEN r.self ELSE r.val[1]
               /\ last' = "__add__"
  /\ UNCHANGED << made, idx >>

MultiGetLoc ==
  /\ made = "MultiIndex"
  /\ \E tup \in NewDataInputs \cup {<< >>}, get_all \in BOOLEAN, give_error \in BOOLEAN :
       LET r == MultiIndex_get_loc(mi, tup, get_all, give_error)
       IN  /\ mi' = r.self
           /\ last' = "get_loc"
  /\ UNCHANGED << made, idx >>

(* mi[index], for each shape of selector *)
MultiGetItem ==
  /\ made = "MultiIndex"
  /\ \E r \in {MultiIndex_getitem_int(mi, index) : index \in RowPosInputs}
          \cup {MultiIndex_getitem_list(mi, index) : index \in RowListInputs}
          \cup {MultiIndex_getitem_mask(mi, index) : index \in RowMaskInputs}
          \cup {MultiIndex_getitem_slice(mi, sl[1], sl[2], sl[3]) : sl \in RowSliceInputs} :
       /\ mi' = r.self
       /\ last' = "__getitem__"
  /\ UNCHANGED << made, idx >>

IndexSet == IndexSetInt \/ IndexSetList \/ IndexSetMask \/ IndexSetSlice
IndexRead == IndexGetLoc \/ IndexGetItem
MultiSet == MultiSetInt \/ MultiSetList \/ MultiSetMask \/ MultiSetSlice
MultiRead == MultiGetLoc \/ MultiGetItem

(* Every call. *)
Next ==
  \/ NewIndex \/ IndexExtend \/ IndexAppend \/ IndexSet \/ IndexRead
  \/ NewMultiIndex \/ NewNamedMultiIndex \/ NewProductMultiIndex \/ NewTuplesMultiIndex
  \/ MultiSetNames \/ MultiSet \/ MultiExtend \/ MultiAdd \/ MultiRead

Spec == Init /\ [][Next]_vars

(* An Index: construction, bulk extension, positional sets and reads. *)
NextIndex == NewIndex \/ IndexExtend \/ IndexSet \/ IndexRead

SpecIndex == Init /\ [][NextIndex]_vars

(* An Index, with append. *)
NextIndexAppend == NewIndex \/ IndexAppend \/ IndexSet

SpecIndexAppend == Init /\ [][NextIndexAppend]_vars

(* A MultiIndex: construction and row writes. *)
NextMultiSet == NewMultiIndex \/ MultiSet

SpecMultiSet == Init /\ [][NextMultiSet]_vars

(* A MultiIndex: construction, row writes and lookups. *)
NextMultiGetLoc == NewMultiIndex \/ MultiSet \/ MultiGetLoc

SpecMultiGetLoc == Init /\ [][NextMultiGetLoc]_vars

(* Both index types: every call that changes the object. *)
NextMutators ==
  \/ NewIndex \/ IndexExtend \/ IndexAppend \/ IndexSet
  \/ NewMultiIndex \/ NewNamedMultiIndex \/ MultiSet \/ MultiExtend \/ MultiAdd

SpecMutators == Init /\ [][NextMutators]_vars

(* A MultiIndex: construction with and without names, row writes, in-place
   extension and concatenation. *)
NextMultiMutators == NewMultiIndex \/ NewNamedMultiIndex \/ MultiSet \/ MultiExtend \/ MultiAdd

SpecMultiMutators == Init /\ [][NextMultiMutators]_vars

(* A MultiIndex built by from_product, and its positional reads. *)
NextProduct == NewProductMultiIndex \/ MultiGetItem

SpecProduct == Init /\ [][NextProduct]_vars

(* A MultiIndex of two or more levels, with or without names, and the names
   setter. *)
NextNames == NewMultiIndex \/ NewNamedMultiIndex \/ NewProductMultiIndex \/ MultiSetNames

SpecNames == Init /\ [][NextNames]_vars

(* Both index types as construction from items and from row tuples leaves
   them, and their positional reads. *)
NextConstructed == NewIndex \/ IndexGetItem \/ NewTuplesMultiIndex \/ MultiGetItem

SpecConstructed == Init /\ [][NextConstructed]_vars

-----------------------------------------------------------------------------
(* Properties of the Index cache *)

(* The members of a set of integers, ascending. *)
RECURSIVE AscendingSeq(_)
AscendingSeq(S) ==
  IF S = {} THEN << >>
  ELSE LET least == CHOOSE x \in S : \A y \in S : x <= y
       IN  << least >> \o AscendingSeq(S \ {least})

(* The positions (from 0) at which a list holds k, ascending. *)
PositionsOf(list, k) == AscendingSeq({i - 1 : i \in {j \in 1 .. Len(list) : list[j] = k}})

(* C1: in every state reached from a cache-enabled Index by positional sets
   and bulk extensions, whether they succeed or fail, every key occurring in
   the positions is a key of the cache, and every key k of the cache is
   mapped to exactly the ascending, duplicate-free list of the positions
   that hold k. *)
C1_IndexCacheInvariant ==
  (made = "Index" /\ idx.cached) =>
    /\ \A i \in 1 .. Len(idx.index) : idx.index[i] \in DOMAIN idx.cache
    /\ \A k \in DOMAIN idx.cache : idx.cache[k] = PositionsOf(idx.index, k)

(* A cache-enabled Index after a set: a key has lost all its positions and
   another holds several. *)
C1_Witness ==
  /\ made = "Index" /\ idx.cached
  /\ last = "__setitem__"
  /\ \E k \in DOMAIN idx.cache : idx.cache[k] = << >>
  /\ \E k \in DOMAIN idx.cache : Len(idx.cache[k]) >= 2

(* C2: for a cache-enabled Index, after any sequence of positional sets, the
   cache maintained incrementally is identical (same keys, same list for each
   key) to the cache built from scratch from the current positions. *)
C2_CacheEqualsRebuilt ==
  (made = "Index" /\ idx.cached) => idx.cache = Index_create_cache(idx).cache

(* C3: append of a valid scalar, with or without a cache, completes without
   error; the length grows by one, the last position holds the key of the
   value, the earlier positions are unchanged, and a cache, if present, has
   the new last position in the bucket of that key. *)
C3_AppendCompletes ==
  made = "Index" =>
    \A value \in Scalars :
      LET r == Index_append(idx, value)
          n == Index_len(idx)
      IN  /\ ~Raised(r)
          /\ Index_len(r.self) = n + 1
          /\ value \in DOMAIN r.self.reverse_mapping
          /\ r.self.index[n + 1] = r.self.reverse_mapping[value]
          /\ SubSeq(r.self.index, 1, n) = idx.index
          /\ r.self.cached =>
               /\ r.self.index[n + 1] \in DOMAIN r.self.cache
               /\ Contains(r.self.cache[r.self.index[n + 1]], n)

-----------------------------------------------------------------------------
(* Properties of the MultiIndex cache *)

(* The key-tuple of the row at position p (from 0). *)
RowKeys(self, p) == [level \in 1 .. self.levels |-> self.multiindex[level][p + 1]]

(* The positions (from 0) of the rows whose key-tuple is t, ascending. *)
RowPositionsOf(self, t) ==
  AscendingSeq({p \in 0 .. MultiIndex_len(self) - 1 : RowKeys(self, p) = t})

(* C4: in every state reached from a cache-enabled MultiIndex by row writes
   (by position, position list, mask or slice), whether they succeed or
   fail, the cache maps each key-tuple that occurs as a row to exactly the
   ascending, duplicate-free list of the positions of the rows equal to it,
   and no position is filed under a key-tuple that is not the row at that
   position. *)
C4_MultiIndexCacheInvariant ==
  (made = "MultiIndex" /\ mi.cached) =>
    /\ \A p \in 0 .. MultiIndex_len(mi) - 1 :
         /\ RowKeys(mi, p) \in DOMAIN mi.cache
         /\ mi.cache[RowKeys(mi, p)] = RowPositionsOf(mi, RowKeys(mi, p))
    /\ \A t \in DOMAIN mi.cache :
         \A j \in 1 .. Len(mi.cache[t]) :
           /\ mi.cache[t][j] \in 0 .. MultiIndex_len(mi) - 1
           /\ RowKeys(mi, mi.cache[t][j]) = t

(* A cache-enabled MultiIndex after a row write, with a
   key-tuple that has lost all its rows and another that holds two. *)
C4_Witness ==
  /\ made = "MultiIndex" /\ mi.cached
  /\ last = "__setitem__"
  /\ \E t \in DOMAIN mi.cache : mi.cache[t] = << >>
  /\ \E t \in DOMAIN mi.cache : Len(mi.cache[t]) = 2

-----------------------------------------------------------------------------
(* Properties of the interning store *)

(* mapping and reverse_mapping are inverses, the keys are 0 .. n-1 for the n
   stored values, and every key in use is a key of mapping. *)
StoreInvariant(mapping, reverse_mapping, keys_in_use) ==
  /\ \A k \in DOMAIN mapping :
       mapping[k] \in DOMAIN reverse_mapping /\ reverse_mapping[mapping[k]] = k
  /\ \A v \in DOMAIN reverse_mapping :
       reverse_mapping[v] \in DOMAIN mapping /\ mapping[reverse_mapping[v]] = v
  /\ DOMAIN mapping = 0 .. Cardinality(DOMAIN reverse_mapping) - 1
  /\ keys_in_use \subseteq DOMAIN mapping

(* The keys held in the level columns of a MultiIndex. *)
ColumnKeys(self) == UNION {SeqSet(self.multiindex[level]) : level \in 1 .. self.levels}

(* C5: for both index types, in every state reached by construction,
   append, extension or concatenation, and positional sets, mapping and
   reverse_mapping are exact inverses of each other, the key set is exactly
   0 .. n-1 for n stored values, and every key held in the positions or the
   level columns is a key of mapping. *)
C5_StoreInvariant ==
  /\ made = "Index" => StoreInvariant(idx.mapping, idx.reverse_mapping, SeqSet(idx.index))
  /\ made = "MultiIndex" => StoreInvariant(mi.mapping, mi.reverse_mapping, ColumnKeys(mi))

(* A MultiIndex just extended that stores a value none of its rows holds
   any more: a row write came before the extension. *)
C5_Witness ==
  /\ made = "MultiIndex" /\ last = "extend"
  /\ MultiIndex_len(mi) = MaxRows
  /\ DOMAIN mi.mapping \ ColumnKeys(mi) # {}

-----------------------------------------------------------------------------
(* Properties of Index lookups and reads *)

(* The sequences of valid scalars an Index is built from. *)
ValidSequences == SeqsUpTo(Scalars, MaxLen)

(* idx is Index(s), with or without its cache, as construction leaves it. *)
IsIndexOf(s) ==
  /\ made = "Index"
  /\ \E order \in Orders(SeqSet(s)) : idx = Index_init(s, idx.cached, order).self

(* The outcome of a call: the kind of value returned or exception raised,
   and the value. *)
Outcome(r) == << r.kind, r.val >>

(* C6: for every valid scalar sequence s and every v occurring in s,
   Index(s).get_loc(v, get_all=true) returns exactly the positions i with
   s[i] = v, ascending, and get_loc(v, get_all=false) returns the smallest
   of them, with the cache enabled and with it disabled. *)
C6_GetLocOfFreshIndex ==
  \A s \in ValidSequences :
    IsIndexOf(s) =>
      \A v \in SeqSet(s), give_error \in BOOLEAN :
        /\ Outcome(Index_get_loc(idx, v, TRUE, give_error)) = << "list", PositionsOf(s, v) >>
        /\ Outcome(Index_get_loc(idx, v, FALSE, give_error))
             = << "int", << PositionsOf(s, v)[1] >> >>

(* get_loc was called on an Index built with its cache from a sequence of
   full length that repeats a value. *)
C6_Witness ==
  /\ last = "get_loc" /\ idx.cached
  /\ \E s \in ValidSequences :
       IsIndexOf(s) /\ Len(s) = MaxLen /\ Cardinality(SeqSet(s)) < Len(s)

(* The outcomes of every get_loc call and every positional read on an Index. *)
IndexOutcomes(self) ==
  [get_loc |-> [a \in Items \X BOOLEAN \X BOOLEAN |->
                  Outcome(Index_get_loc(self, a[1], a[2], a[3]))],
   position |-> [index \in PosInputs |-> Outcome(Index_getitem_int(self, index))],
   list |-> [index \in ListInputs |-> Outcome(Index_getitem_list(self, index))],
   mask |-> [index \in MaskInputs |-> Outcome(Index_getitem_mask(self, index))],
   slice |-> [sl \in SliceInputs |-> Outcome(Index_getitem_slice(self, sl[1], sl[2], sl[3]))]]

(* C7: a cache-enabled Index and a cache-disabled Index built from the same
   sequence return identical outcomes (same value or same error) for every
   get_loc call (any label, both get_all modes, both give_error modes) and
   for every positional read (position, position list, mask, slice). *)
C7_CacheDoesNotChangeOutcomes ==
  \A s \in ValidSequences :
    (IsIndexOf(s) /\ idx.cached) =>
      \A order \in Orders(SeqSet(s)) :
        IndexOutcomes(idx) = IndexOutcomes(Index_init(s, FALSE, order).self)

(* A read was made on an Index built with its cache from a sequence of full
   length that repeats a value. *)
C7_Witness ==
  /\ last = "__getitem__" /\ idx.cached
  /\ \E s \in ValidSequences :
       IsIndexOf(s) /\ Len(s) = MaxLen /\ Cardinality(SeqSet(s)) < Len(s)

-----------------------------------------------------------------------------
(* Properties of MultiIndex lookups *)

(* The tuples of valid scalars, one per level. *)
ValidTuples(self) == [1 .. self.levels -> Scalars]

(* The positions (from 0) of the rows equal to the tuple t, ascending. *)
RowsEqualTo(self, t) ==
  AscendingSeq({p \in 0 .. MultiIndex_len(self) - 1 : MultiIndex_to_tuples(self)[p + 1] = t})

(* C8: MultiIndex.get_loc(t, get_all=true), for a tuple t of one value per
   level that equals at least one row, returns all the positions of the rows
   equal to t, ascending, and get_loc(t, get_all=false) returns the smallest
   of them, whether the cache is present or absent. *)
C8_MultiIndexGetLoc ==
  made = "MultiIndex" =>
    \A t \in ValidTuples(mi), give_error \in BOOLEAN :
      RowsEqualTo(mi, t) # << >> =>
        /\ Outcome(MultiIndex_get_loc(mi, t, TRUE, give_error)) = << "list", RowsEqualTo(mi, t) >>
        /\ Outcome(MultiIndex_get_loc(mi, t, FALSE, give_error))
             = << "int", << RowsEqualTo(mi, t)[1] >> >>

(* C9: MultiIndex.get_loc(t, give_error=false), for a well-formed tuple t of
   one value per level that equals no row (also when every component of t is
   in the interning store), returns the not-found result (None, or no
   positions) and never fails, in both get_all modes, with or without cache. *)
C9_MultiIndexGetLocNotFound ==
  made = "MultiIndex" =>
    \A t \in ValidTuples(mi), get_all \in BOOLEAN :
      RowsEqualTo(mi, t) = << >> =>
        Outcome(MultiIndex_get_loc(mi, t, get_all, FALSE)) \in {<< "None", << >> >>, << "list", << >> >>}

-----------------------------------------------------------------------------
(* Properties of Index lookups after positional sets *)

(* C10: for an Index in any state reached by positional sets and any valid
   scalar v, get_loc(v, get_all=false, give_error=false) either returns a
   position whose current value is v or returns None; it never fails, also
   when v is still in reverse_mapping and every position that held it has
   been overwritten. *)
C10_GetLocNeverFails ==
  made = "Index" =>
    \A v \in Scalars :
      LET r == Index_get_loc(idx, v, FALSE, FALSE)
      IN  \/ r.kind = "None"
          \/ /\ r.kind = "int"
             /\ r.val[1] \in 0 .. Index_len(idx) - 1
             /\ Index_to_list(idx)[r.val[1] + 1] = v

-----------------------------------------------------------------------------
(* Properties of slices *)

(* Both index types: construction, positional sets and positional reads. *)
NextItems == NewIndex \/ IndexSet \/ IndexGetItem \/ NewMultiIndex \/ MultiSet \/ MultiGetItem

SpecItems == Init /\ [][NextItems]_vars

(* The position a bound names in an index of n items (a negative bound counts
   from the end), and whether it lies in the index. *)
Wrapped(n, b) == IF b < 0 THEN b + n ELSE b
InRange(n, b) == Wrapped(n, b) >= 0 /\ Wrapped(n, b) < n
Lower(n, a, b) == IF Wrapped(n, a) < Wrapped(n, b) THEN Wrapped(n, a) ELSE Wrapped(n, b)
Upper(n, a, b) == IF Wrapped(n, a) < Wrapped(n, b) THEN Wrapped(n, b) ELSE Wrapped(n, a)
Reverse(s) == [k \in 1 .. Len(s) |-> s[Len(s) + 1 - k]]

(* What a slice read of `list` with in-range bounds a, b answers for step 1
   and for step -1, given the two answers the code made. *)
UnitStepRead(list, a, b, forward, backward) ==
  LET n == Len(list)
      between == SubSeq(list, Lower(n, a, b) + 1, Upper(n, a, b) + 1)
  IN  /\ Outcome(forward) = << "list", between >>
      /\ Outcome(backward) = << "list", Reverse(between) >>

(* C11: for both index types and all bounds a, b that normalise into
   [0, len), the slice read (a, b, 1) returns exactly the items at positions
   min(a, b) .. max(a, b) in ascending order, and (a, b, -1) returns the same
   positions in descending order. *)
C11_UnitStepSliceRead ==
  /\ made = "Index" =>
       \A a, b \in PosInputs :
         (InRange(Index_len(idx), a) /\ InRange(Index_len(idx), b)) =>
           UnitStepRead(Index_to_list(idx), a, b,
                        Index_getitem_slice(idx, Some(a), Some(b), Some(1)),
                        Index_getitem_slice(idx, Some(a), Some(b), Some(-1)))
  /\ made = "MultiIndex" =>
       \A a, b \in RowPosInputs :
         (InRange(MultiIndex_len(mi), a) /\ InRange(MultiIndex_len(mi), b)) =>
           UnitStepRead(MultiIndex_to_tuples(mi), a, b,
                        MultiIndex_getitem_slice(mi, Some(a), Some(b), Some(1)),
                        MultiIndex_getitem_slice(mi, Some(a), Some(b), Some(-1)))

(* An Index of full length whose first and last items differ has been read:
   its descending read differs from its ascending read. *)
C11_Witness ==
  /\ made = "Index"
  /\ last = "__getitem__"
  /\ Index_len(idx) = MaxLen
  /\ idx.index[1] # idx.index[MaxLen]

(* The non-zero steps a slice is read with. *)
NonZeroSteps == ((0 - MaxStep) .. MaxStep) \ {0}

(* The answer is a list that holds both `first` and `final`. *)
HoldsBoth(r, first, final) ==
  /\ r.kind = "list"
  /\ Contains(r.val, first)
  /\ Contains(r.val, final)

(* C12: for every pair of explicit in-range bounds (start, stop) and every
   non-zero step, the items a slice read selects include both the item at
   the start position and the item at the stop position. *)
C12_SliceReadHoldsBothEnds ==
  /\ made = "Index" =>
       \A a, b \in PosInputs, step \in NonZeroSteps :
         (InRange(Index_len(idx), a) /\ InRange(Index_len(idx), b)) =>
           HoldsBoth(Index_getitem_slice(idx, Some(a), Some(b), Some(step)),
                     Index_to_list(idx)[Wrapped(Index_len(idx), a) + 1],
                     Index_to_list(idx)[Wrapped(Index_len(idx), b) + 1])
  /\ made = "MultiIndex" =>
       \A a, b \in RowPosInputs, step \in NonZeroSteps :
         (InRange(MultiIndex_len(mi), a) /\ InRange(MultiIndex_len(mi), b)) =>
           HoldsBoth(MultiIndex_get_rows_by_slice(mi, Some(a), Some(b), Some(step)),
                     MultiIndex_to_tuples(mi)[Wrapped(MultiIndex_len(mi), a) + 1],
                     MultiIndex_to_tuples(mi)[Wrapped(MultiIndex_len(mi), b) + 1])

(* C13: slice bounds are an unordered pair: for both index types, all
   explicit in-range bounds a, b and every non-zero step s, the slice read
   (a, b, s) returns the same list as the slice read (b, a, s). *)
C13_SliceBoundsUnordered ==
  /\ made = "Index" =>
       \A a, b \in PosInputs, step \in NonZeroSteps :
         (InRange(Index_len(idx), a) /\ InRange(Index_len(idx), b)) =>
           /\ Index_getitem_slice(idx, Some(a), Some(b), Some(step)).kind = "list"
           /\ Outcome(Index_getitem_slice(idx, Some(a), Some(b), Some(step)))
                = Outcome(Index_getitem_slice(idx, Some(b), Some(a), Some(step)))
  /\ made = "MultiIndex" =>
       \A a, b \in RowPosInputs, step \in NonZeroSteps :
         (InRange(MultiIndex_len(mi), a) /\ InRange(MultiIndex_len(mi), b)) =>
           /\ MultiIndex_getitem_slice(mi, Some(a), Some(b), Some(step)).kind = "list"
           /\ Outcome(MultiIndex_getitem_slice(mi, Some(a), Some(b), Some(step)))
                = Outcome(MultiIndex_getitem_slice(mi, Some(b), Some(a), Some(step)))

(* A MultiIndex of two different rows has been read: a read between its two
   rows is not empty, and the two orders of the bounds are different calls. *)
C13_Witness ==
  /\ made = "MultiIndex"
  /\ last = "__getitem__"
  /\ MultiIndex_len(mi) = MaxRows
  /\ MultiIndex_to_tuples(mi)[1] # MultiIndex_to_tuples(mi)[MaxRows]

(* An explicit bound that, wrapped, lies outside [0, n). *)
OutOfRange(n, bound) == bound # None /\ ~InRange(n, bound[1])

(* C14: correcting a slice fails with IndexError (out of bounds) exactly when
   an explicit start or stop bound, after a negative bound is wrapped by
   adding the length, lies outside [0, len): a bound equal to len or below
   -len fails, an absent bound never does; the index is left unchanged. *)
C14_CorrectSliceOutOfBounds ==
  /\ made = "Index" =>
       \A sl \in SliceInputs :
         /\ Index_get_correct_slice(idx, sl[1], sl[2], sl[3]).kind = "IndexError"
              <=> (OutOfRange(Index_len(idx), sl[1]) \/ OutOfRange(Index_len(idx), sl[2]))
         /\ Index_getitem_slice(idx, sl[1], sl[2], sl[3]).self = idx
  /\ made = "MultiIndex" =>
       \A sl \in RowSliceInputs :
         /\ MultiIndex_get_correct_slice(mi, sl[1], sl[2], sl[3]).kind = "IndexError"
              <=> (OutOfRange(MultiIndex_len(mi), sl[1]) \/ OutOfRange(MultiIndex_len(mi), sl[2]))
         /\ MultiIndex_getitem_slice(mi, sl[1], sl[2], sl[3]).self = mi

(* An Index shorter than the largest bound tried has been read: the bounds
   len and -len - 1 are among the slices, and so are in-range and absent ones. *)
C14_Witness ==
  /\ made = "Index"
  /\ last = "__getitem__"
  /\ Index_len(idx) > 0
  /\ Index_len(idx) < MaxLen
  /\ \E sl \in SliceInputs : OutOfRange(Index_len(idx), sl[1]) /\ sl[2] = None
  /\ \E sl \in SliceInputs : sl[1] = Some(Index_len(idx)) /\ ~OutOfRange(Index_len(idx), sl[2])

(* The positions whose items the slice read idx[start:stop:step] returns. *)
Index_slice_read_positions(self, start, stop, step) ==
  LET c == Index_get_correct_slice(self, start, stop, step)
  IN  SeqSet(PySlicePositions(Index_len(self), c.val[1], c.val[2], c.val[3][1]))

(* C15: Index slice assignment uses the slice semantics of the slice read: for
   every slice, idx[slice] = v writes v to exactly the positions whose items
   idx[slice] returns and leaves every other position unchanged, and it
   rejects the slices the read rejects. *)
C15_SliceAssignmentAsSliceRead ==
  made = "Index" =>
    \A sl \in SliceInputs, v \in Scalars :
      LET read == Index_getitem_slice(idx, sl[1], sl[2], sl[3])
          write == Index_setitem_slice(idx, sl[1], sl[2], sl[3], v)
      IN  IF Raised(read)
          THEN Raised(write) /\ Index_to_list(write.self) = Index_to_list(idx)
          ELSE /\ ~Raised(write)
               /\ Index_len(write.self) = Index_len(idx)
               /\ \A p \in 0 .. Index_len(idx) - 1 :
                    Index_to_list(write.self)[p + 1] =
                      IF p \in Index_slice_read_positions(idx, sl[1], sl[2], sl[3])
                      THEN v ELSE Index_to_list(idx)[p + 1]

-----------------------------------------------------------------------------
(* Properties of MultiIndex slice assignment *)

(* The positions whose rows the slice read mi[start:stop:step] returns. *)
MultiIndex_slice_read_positions(self, start, stop, step) ==
  LET c == MultiIndex_get_correct_slice(self, start, stop, step)
  IN  SeqSet(PySlicePositions(MultiIndex_len(self), c.val[1], c.val[2], c.val[3][1]))

(* The key-tuples under which the cache files position p. *)
CacheFiles(self, p) == {t \in DOMAIN self.cache : Contains(self.cache[t], p)}

(* Slices whose explicit bounds are in range and whose step is not zero. *)
ValidRowSlices(self) ==
  {sl \in RowSliceInputs : /\ ~OutOfRange(MultiIndex_len(self), sl[1])
                           /\ ~OutOfRange(MultiIndex_len(self), sl[2])
                           /\ sl[3] # Some(0)}

(* `after` is `before` with `row` written at exactly the positions in
   selected: the other rows, the column lengths and the cache entries of the
   other positions are as they were, and each selected position is filed
   under the key-tuple of `row` alone. *)
RowsWritten(before, after, selected, row) ==
  /\ \A level \in 1 .. before.levels :
       Len(after.multiindex[level]) = Len(before.multiindex[level])
  /\ \A p \in 0 .. MultiIndex_len(before) - 1 :
       MultiIndex_to_tuples(after)[p + 1] =
         IF p \in selected THEN row ELSE MultiIndex_to_tuples(before)[p + 1]
  /\ after.cached = before.cached
  /\ before.cached =>
       \A p \in 0 .. MultiIndex_len(before) - 1 :
         CacheFiles(after, p) =
           IF p \in selected THEN {RowKeys(after, p)} ELSE CacheFiles(before, p)

(* C16: MultiIndex slice assignment mi[slice] = row, for a row of level_count
   valid scalars, in-range bounds and a non-zero step: afterwards exactly the
   positions the slice read of the same slice selects hold row, every other
   row is unchanged, all level columns keep their length, and the cache
   entries are updated at exactly the positions that were overwritten. *)
C16_MultiIndexSliceAssignment ==
  made = "MultiIndex" =>
    \A sl \in ValidRowSlices(mi), row \in Scalars \X Scalars :
      \A order \in InternOrders(mi.reverse_mapping, SeqSet(row)) :
        LET write == MultiIndex_setitem_slice(mi, sl[1], sl[2], sl[3], row, order)
        IN  /\ ~Raised(write)
            /\ RowsWritten(mi, write.self,
                           MultiIndex_slice_read_positions(mi, sl[1], sl[2], sl[3]), row)

(* A cache-enabled MultiIndex whose rows were all made equal by a write, and
   whose cache files both positions under one key-tuple. *)
C16_Witness ==
  /\ made = "MultiIndex" /\ mi.cached
  /\ last = "__setitem__"
  /\ MultiIndex_len(mi) = MaxRows
  /\ \A p \in 0 .. MaxRows - 1 : RowKeys(mi, p) = RowKeys(mi, 0)
  /\ Cardinality(DOMAIN mi.cache) > 1

-----------------------------------------------------------------------------
(* Properties of is_unique *)

(* No two places of the sequence hold the same value. *)
NoDuplicates(s) == \A i, j \in 1 .. Len(s) : s[i] = s[j] => i = j

(* C17: for both index types, in every state reached by construction and
   positional sets, is_unique() is true iff no two positions (rows) hold the
   same key (key-tuple), and the cache-enabled answer equals the answer the
   duplicate scan gives without the cache. *)
C17_IsUnique ==
  /\ made = "Index" =>
       /\ Index_is_unique(idx) <=> NoDuplicates(idx.index)
       /\ Index_is_unique(idx) <=> Index_is_unique(Index_flush_cache(idx))
  /\ made = "MultiIndex" =>
       /\ MultiIndex_is_unique(mi) <=> NoDuplicates(MultiIndex_to_tuples(mi))
       /\ MultiIndex_is_unique(mi) <=> MultiIndex_is_unique(MultiIndex_flush_cache(mi))

-----------------------------------------------------------------------------
(* Properties of extension and concatenation *)

(* C18: MultiIndex.verify_integrity(full = true) reports "Ok" for all three
   checks (equal level lengths, every column key in mapping and among the
   values of reverse_mapping, mapping and reverse_mapping mutual inverses) in
   every state reached by construction followed by in-place extension,
   positional row writes and concatenation, with matching or mismatched
   names. *)
C18_VerifyIntegrityOk ==
  made = "MultiIndex" => MultiIndex_verify_integrity(mi, TRUE) = << "Ok", "Ok", "Ok" >>

(* A named MultiIndex that an extension or a concatenation has filled, and
   that holds a value interned after construction. *)
C18_Witness ==
  /\ made = "MultiIndex"
  /\ last \in {"extend", "__add__"}
  /\ MultiIndex_len(mi) = MaxRows
  /\ Cardinality(DOMAIN mi.mapping) > Cardinality(ColumnKeys(mi))

(* The names of the two match as sets: both are present and name the same
   levels, in any order. *)
NamesMatch(first, second) ==
  /\ first.names # << >>
  /\ second.names # << >>
  /\ SeqSet(first.names) = SeqSet(second.names)

(* The rows of second as they are to be appended to first: merged by name
   when the names match, by position otherwise. *)
RowsToAppend(first, second) ==
  [p \in 1 .. MultiIndex_len(second) |->
     [level \in 1 .. first.levels |->
        IF NamesMatch(first, second)
        THEN MultiIndex_to_tuples(second)[p][FirstIndex(second.names, first.names[level])]
        ELSE MultiIndex_to_tuples(second)[p][level]]]

(* Other MultiIndexes of the level count of self. *)
SecondsFor(self) == {second \in SecondInputs : second.levels = self.levels}

(* C19: concatenation merges by name when names match: for both in-place
   extend and first + second, if first and second have the same set of level
   names in a different order, every appended row carries, at first's level
   named n, the value second had at its level named n; if the names do not
   match as sets, or either is absent, second's level at position j is
   appended to first's level at position j.  Stated for a first that holds
   rows. *)
C19_ConcatenationMergesByName ==
  (made = "MultiIndex" /\ MultiIndex_len(mi) > 0) =>
    \A second \in SecondsFor(mi) :
      /\ \A order \in InternOrders(mi.reverse_mapping, DOMAIN second.reverse_mapping) :
           LET r == MultiIndex_extend(mi, second, FALSE, order)
           IN  /\ ~Raised(r)
               /\ MultiIndex_to_tuples(r.self) = MultiIndex_to_tuples(mi) \o RowsToAppend(mi, second)
      /\ \A copy_order \in Orders({mi.mapping[k] : k \in ColumnKeys(mi)}) :
           \A order \in Orders(DOMAIN second.reverse_mapping \ SeqSet(copy_order)) :
             LET r == MultiIndex_add(mi, second, FALSE, copy_order, order)
             IN  /\ r.kind = "MultiIndex"
                 /\ MultiIndex_to_tuples(r.val[1]) = MultiIndex_to_tuples(mi) \o RowsToAppend(mi, second)

(* C20: after first.extend(second) on a cache-enabled first of any row count
   (zero rows included) and a distinct second, first's cache is its cache
   before the call plus exactly the positions old_len .. old_len +
   len(second) - 1, each filed under the key-tuple of the row now at that
   position: no earlier position is added again, and every row is filed
   under its key-tuple. *)
C20_ExtendAddsNewRowsToCache ==
  (made = "MultiIndex" /\ mi.cached) =>
    \A second \in SecondsFor(mi) :
      \A order \in InternOrders(mi.reverse_mapping, DOMAIN second.reverse_mapping) :
        LET after == MultiIndex_extend(mi, second, FALSE, order).self
            old_len == MultiIndex_len(mi)
        IN  /\ after.cached
            /\ MultiIndex_len(after) = old_len + MultiIndex_len(second)
            /\ \A p \in 0 .. MultiIndex_len(after) - 1 :
                 CacheFiles(after, p) = IF p < old_len THEN CacheFiles(mi, p)
                                        ELSE {RowKeys(after, p)}
            /\ \A t \in DOMAIN after.cache :
                 /\ Len(after.cache[t]) = Cardinality(SeqSet(after.cache[t]))
                 /\ \A j \in 1 .. Len(after.cache[t]) :
                      after.cache[t][j] \in 0 .. MultiIndex_len(after) - 1

(* The values the rows of self hold. *)
ValuesOf(self) == {self.mapping[k] : k \in ColumnKeys(self)}

(* C21: first.extend(second) with a distinct second of equal level_count:
   afterwards len(first) = old_len + len(second), rows 0 .. old_len - 1 of
   first are unchanged, all level columns of first have equal length, and
   every value of second is present in first's interning store.  (second is
   an argument the call only reads.) *)
C21_ExtendFrame ==
  made = "MultiIndex" =>
    \A second \in SecondsFor(mi) :
      \A order \in InternOrders(mi.reverse_mapping, DOMAIN second.reverse_mapping) :
        LET r == MultiIndex_extend(mi, second, FALSE, order)
        IN  /\ ~Raised(r)
            /\ MultiIndex_len(r.self) = MultiIndex_len(mi) + MultiIndex_len(second)
            /\ SubSeq(MultiIndex_to_tuples(r.self), 1, MultiIndex_len(mi)) = MultiIndex_to_tuples(mi)
            /\ \A level \in 1 .. r.self.levels :
                 Len(r.self.multiindex[level]) = MultiIndex_len(r.self)
            /\ r.self.levels = mi.levels
            /\ \A v \in DOMAIN second.reverse_mapping \cup ValuesOf(second) :
                 /\ v \in DOMAIN r.self.reverse_mapping
                 /\ r.self.mapping[r.self.reverse_mapping[v]] = v

(* A cache-enabled MultiIndex that an extend has filled with two different
   rows. *)
C21_Witness ==
  /\ made = "MultiIndex" /\ mi.cached
  /\ last = "extend"
  /\ MultiIndex_len(mi) = MaxRows
  /\ RowKeys(mi, 0) # RowKeys(mi, MaxRows - 1)

(* C22: extend and + between multi-indexes of different level_count fail
   with IndexError (level mismatch) before anything is changed: the levels,
   interning store, cache and names of first are exactly as before the call.
   (second is an argument the call only reads.) *)
C22_LevelMismatchChangesNothing ==
  made = "MultiIndex" =>
    \A second \in SecondInputs :
      second.levels # mi.levels =>
        /\ \A order \in InternOrders(mi.reverse_mapping, DOMAIN second.reverse_mapping) :
             Outcome(MultiIndex_extend(mi, second, FALSE, order)) = << "IndexError", << >> >>
               /\ MultiIndex_extend(mi, second, FALSE, order).self = mi
        /\ \A copy_order \in Orders(ValuesOf(mi)) :
             \A order \in Orders(DOMAIN second.reverse_mapping \ SeqSet(copy_order)) :
               Outcome(MultiIndex_add(mi, second, FALSE, copy_order, order)) = << "IndexError", << >> >>
                 /\ MultiIndex_add(mi, second, FALSE, copy_order, order).self = mi

(* A named MultiIndex of one row after an extend, whose store lacks a value
   that a MultiIndex of another level count holds. *)
C22_Witness ==
  /\ made = "MultiIndex"
  /\ last = "extend"
  /\ mi.names # << >>
  /\ MultiIndex_len(mi) = 1
  /\ \E second \in SecondInputs :
       /\ second.levels # mi.levels
       /\ DOMAIN second.reverse_mapping \ DOMAIN mi.reverse_mapping # {}

-----------------------------------------------------------------------------
(* Properties of construction *)

(* Two or more non-empty sequences of valid scalars. *)
ValidProducts ==
  UNION {[1 .. n -> SeqsUpTo(Scalars, MaxRows) \ {<< >>}] : n \in 2 .. MaxProductLevels}

(* The product of the lengths of the sequences from place `from` on. *)
RECURSIVE LengthsProduct(_, _)
LengthsProduct(index, from) ==
  IF from > Len(index) THEN 1 ELSE Len(index[from]) * LengthsProduct(index, from + 1)

(* Row k (from 0) of the cartesian product in lexicographic order, the last
   sequence varying fastest. *)
ProductRow(index, k) ==
  [level \in 1 .. Len(index) |->
     index[level][((k \div LengthsProduct(index, level + 1)) % Len(index[level])) + 1]]

(* C23: MultiIndex.from_product of two or more non-empty sequences succeeds
   and yields exactly the cartesian product as rows, in lexicographic order
   with the last sequence varying fastest: the row count is the product of
   the input lengths and level_count is the number of inputs.  Stated where
   the constructor can be called, for every call it can be called with. *)
C23_FromProduct ==
  made = "none" =>
    \A index \in ValidProducts, cache \in BOOLEAN, memory_efficient \in BOOLEAN :
      \A order \in Orders(SeqSet(Flatten(index))) :
        LET r == MultiIndex_from_product(index, << >>, cache, memory_efficient, order)
        IN  /\ ~Raised(r)
            /\ r.self.levels = Len(index)
            /\ \A level \in 1 .. Len(index) :
                 Len(r.self.multiindex[level]) = LengthsProduct(index, 1)
            /\ \A k \in 0 .. LengthsProduct(index, 1) - 1 :
                 MultiIndex_to_tuples(r.self)[k + 1] = ProductRow(index, k)

(* from_product has built the MultiIndex of MaxProductLevels levels with the
   most rows: every sequence had MaxRows items, and the first and last rows
   differ at every level. *)
C23_Witness ==
  /\ made = "MultiIndex"
  /\ last = "from_product"
  /\ mi.levels = MaxProductLevels
  /\ MultiIndex_len(mi) = LengthsProduct([level \in 1 .. MaxProductLevels |-> [i \in 1 .. MaxRows |-> 1]], 1)
  /\ \A level \in 1 .. mi.levels :
       mi.multiindex[level][1] # mi.multiindex[level][MultiIndex_len(mi)]

(* C24: the names setter accepts a sequence only if its length equals
   level_count and its entries are pairwise distinct (and valid scalars), and
   then sets it; otherwise it fails and the names set before are unchanged;
   absent names are accepted. *)
C24_NamesSetter ==
  made = "MultiIndex" =>
    \A names \in NamesSetterInputs :
      LET r == MultiIndex_set_names(mi, names)
      IN  IF names = << >> \/ (/\ Len(names) = mi.levels
                               /\ NoDuplicates(names)
                               /\ SeqSet(names) \subseteq Scalars)
          THEN ~Raised(r) /\ r.self = [mi EXCEPT !.names = names]
          ELSE Raised(r) /\ r.self = mi

(* A MultiIndex with rows whose names the setter has set, one name a level. *)
C24_Witness ==
  /\ made = "MultiIndex"
  /\ last = "names"
  /\ MultiIndex_len(mi) > 0
  /\ Len(mi.names) = mi.levels
  /\ NoDuplicates(mi.names)

(* Non-empty lists of valid row tuples of one length. *)
ValidTupleLists ==
  UNION {SeqsUpTo([1 .. n -> Scalars], MaxLen) \ {<< >>} : n \in 1 .. MaxListLen}

(* C25: materialization round-trips input order: for every valid scalar
   sequence s, Index(s).to_list() = s, and for every non-empty list r of
   equal-length valid row tuples, MultiIndex.from_tuples(r).to_tuples() = r,
   whatever the cache flag and the memory_efficient flag.  Stated where the
   constructors can be called, for every call they can be called with. *)
C25_RoundTrip ==
  made = "none" =>
    /\ \A s \in ValidSequences, cache \in BOOLEAN :
         \A order \in Orders(SeqSet(s)) :
           /\ ~Raised(Index_init(s, cache, order))
           /\ Index_to_list(Index_init(s, cache, order).self) = s
    /\ \A r \in ValidTupleLists, cache \in BOOLEAN, memory_efficient \in BOOLEAN :
         \A order \in Orders(SeqSet(Flatten(r))) :
           /\ ~Raised(MultiIndex_from_tuples(r, << >>, cache, memory_efficient, order))
           /\ MultiIndex_to_tuples(
                MultiIndex_from_tuples(r, << >>, cache, memory_efficient, order).self) = r

(* from_tuples has built a MultiIndex of two different rows, the first of
   which holds the value interned last. *)
C25_Witness ==
  /\ made = "MultiIndex"
  /\ last = "from_tuples"
  /\ MultiIndex_len(mi) = MaxRows
  /\ RowKeys(mi, 0) # RowKeys(mi, MaxRows - 1)
  /\ \E level \in 1 .. mi.levels :
       mi.multiindex[level][1] = Cardinality(DOMAIN mi.mapping) - 1

-----------------------------------------------------------------------------
(* Properties of positional reads and writes *)

(* C26: a MultiIndex row read by a single position p is bounds-checked: it
   fails with IndexError (out of bounds) for every p outside [-len, len) and
   returns no row for such p; for p in [-len, len) it returns the row at p
   (at len + p when p is negative). *)
C26_MultiIndexRowReadBoundsChecked ==
  made = "MultiIndex" =>
    \A p \in RowPosInputs :
      IF p >= 0 - MultiIndex_len(mi) /\ p < MultiIndex_len(mi)
      THEN Outcome(MultiIndex_getitem_int(mi, p))
             = << "tuple", MultiIndex_to_tuples(mi)[Wrapped(MultiIndex_len(mi), p) + 1] >>
      ELSE Outcome(MultiIndex_getitem_int(mi, p)) = << "IndexError", << >> >>

(* C27: an Index read by a single position p outside [-len, len) fails with
   the error kind of out-of-bounds (IndexError), the kind that an
   out-of-range positional set and an out-of-range slice bound produce, and
   not with the kind used for a value of an invalid type (TypeError). *)
C27_IndexReadOutOfBoundsKind ==
  made = "Index" =>
    \A p \in PosInputs :
      ~(p >= 0 - Index_len(idx) /\ p < Index_len(idx)) =>
        /\ Index_getitem_int(idx, p).kind = "IndexError"
        /\ Index_getitem_int(idx, p).kind = Index_setitem_int(idx, p, 1).kind
        /\ Index_getitem_int(idx, p).kind = Index_getitem_slice(idx, Some(p), None, None).kind
        /\ Index_getitem_int(idx, p).kind # Index_verify_item(NaN)

(* C28: the failure raised when a position to be removed is not in its cache
   bucket (ValueError) is unreachable under correct use: on a cache-enabled
   Index or MultiIndex built from valid input, no positional write at a
   position in [-len, len), negative positions counting from the end, with a
   valid new value raises it. *)
C28_CacheInconsistencyUnreachable ==
  /\ (made = "Index" /\ idx.cached) =>
       \A p \in PosInputs, v \in Scalars :
         (p >= 0 - Index_len(idx) /\ p < Index_len(idx)) =>
           Index_setitem_int(idx, p, v).kind # "ValueError"
  /\ (made = "MultiIndex" /\ mi.cached) =>
       \A p \in RowPosInputs, row \in [1 .. mi.levels -> Scalars] :
         (p >= 0 - MultiIndex_len(mi) /\ p < MultiIndex_len(mi)) =>
           \A order \in InternOrders(mi.reverse_mapping, SeqSet(row)) :
             MultiIndex_setitem_int(mi, p, row, order).kind # "ValueError"

(* C29: an Index single-position set idx[p] = v that fails because v is not
   a valid scalar or because p is outside [-len, len) raises and leaves
   mapping, reverse_mapping, positions and cache exactly as they were. *)
C29_FailedSetChangesNothing ==
  made = "Index" =>
    \A p \in PosInputs, v \in Items :
      (Index_verify_item(v) # "None" \/ ~(p >= 0 - Index_len(idx) /\ p < Index_len(idx))) =>
        /\ Raised(Index_setitem_int(idx, p, v))
        /\ Index_setitem_int(idx, p, v).self = idx

(* After a positional set, an Index that holds items and has a valid scalar
   not interned yet, which an out-of-range set would be the first to bring. *)
C29_Witness ==
  /\ made = "Index"
  /\ last = "__setitem__"
  /\ Index_len(idx) > 0
  /\ \E v \in Scalars : v \notin DOMAIN idx.reverse_mapping

(* C30: no partial write. A positional set over several positions (a list of
   positions, a boolean mask or a slice) that fails, on an Index or on a
   MultiIndex, leaves the positions / level columns and the cache exactly as
   they were before the call; no target position is written when a later
   target position is out of range. *)
C30_NoPartialWrite ==
  /\ made = "Index" =>
       \A v \in ItemInputs :
         /\ \A index \in ListInputs :
              LET r == Index_setitem_list(idx, index, v)
              IN  Raised(r) => (r.self.index = idx.index /\ r.self.cache = idx.cache)
         /\ \A index \in MaskInputs :
              LET r == Index_setitem_mask(idx, index, v)
              IN  Raised(r) => (r.self.index = idx.index /\ r.self.cache = idx.cache)
         /\ \A sl \in SliceInputs :
              LET r == Index_setitem_slice(idx, sl[1], sl[2], sl[3], v)
              IN  Raised(r) => (r.self.index = idx.index /\ r.self.cache = idx.cache)
  /\ made = "MultiIndex" =>
       \A new_data \in NewDataInputs :
         \A order \in InternOrders(mi.reverse_mapping, SeqSet(new_data)) :
           /\ \A index \in RowListInputs :
                LET r == MultiIndex_setitem_list(mi, index, new_data, order)
                IN  Raised(r) => (r.self.multiindex = mi.multiindex /\ r.self.cache = mi.cache)
           /\ \A index \in RowMaskInputs :
                LET r == MultiIndex_setitem_mask(mi, index, new_data, order)
                IN  Raised(r) => (r.self.multiindex = mi.multiindex /\ r.self.cache = mi.cache)
           /\ \A sl \in RowSliceInputs :
                LET r == MultiIndex_setitem_slice(mi, sl[1], sl[2], sl[3], new_data, order)
                IN  Raised(r) => (r.self.multiindex = mi.multiindex /\ r.self.cache = mi.cache)

-----------------------------------------------------------------------------
(* Properties of the cache, the interning store and reads *)

(* C31: freeing the cache leaves positions / level columns, mapping and
   reverse_mapping unchanged, and afterwards every get_loc call (both get_all
   modes), every positional read and is_unique give the result they gave
   immediately before the cache was freed. *)
C31_FlushCacheLosesNothing ==
  /\ (made = "Index" /\ idx.cached) =>
       LET flushed == Index_flush_cache(idx)
       IN  /\ flushed.index = idx.index
           /\ flushed.mapping = idx.mapping
           /\ flushed.reverse_mapping = idx.reverse_mapping
           /\ \A index \in Items, get_all \in BOOLEAN, give_error \in BOOLEAN :
                Outcome(Index_get_loc(flushed, index, get_all, give_error))
                  = Outcome(Index_get_loc(idx, index, get_all, give_error))
           /\ \A p \in PosInputs :
                Outcome(Index_getitem_int(flushed, p)) = Outcome(Index_getitem_int(idx, p))
           /\ Index_is_unique(flushed) <=> Index_is_unique(idx)
  /\ (made = "MultiIndex" /\ mi.cached) =>
       LET flushed == MultiIndex_flush_cache(mi)
       IN  /\ flushed.multiindex = mi.multiindex
           /\ flushed.mapping = mi.mapping
           /\ flushed.reverse_mapping = mi.reverse_mapping
           /\ \A tup \in NewDataInputs, get_all \in BOOLEAN, give_error \in BOOLEAN :
                Outcome(MultiIndex_get_loc(flushed, tup, get_all, give_error))
                  = Outcome(MultiIndex_get_loc(mi, tup, get_all, give_error))
           /\ \A p \in RowPosInputs :
                Outcome(MultiIndex_getitem_int(flushed, p)) = Outcome(MultiIndex_getitem_int(mi, p))
           /\ MultiIndex_is_unique(flushed) <=> MultiIndex_is_unique(mi)

(* Every pair of the store `before` is a pair of the store `after`. *)
StoreKept(before, after) ==
  \A key \in DOMAIN before : key \in DOMAIN after /\ after[key] = before[key]

(* Interning `value` into the stores of `self` gave the stores of `after`: no
   change for a known value, one new pair under the next dense key otherwise. *)
InternedOnce(self, after, value) ==
  IF value \in DOMAIN self.reverse_mapping
  THEN after.mapping = self.mapping /\ after.reverse_mapping = self.reverse_mapping
  ELSE /\ after.mapping = DictSet(self.mapping, Cardinality(DOMAIN self.mapping), value)
       /\ after.reverse_mapping
            = DictSet(self.reverse_mapping, value, Cardinality(DOMAIN self.mapping))
       /\ Cardinality(DOMAIN self.mapping) \notin DOMAIN self.mapping

InterningIsDense ==
  /\ made = "Index" =>
       \A value \in Scalars :
         InternedOnce(idx, Index_update_mappings_with_single_item(idx, value, TRUE).self, value)
  /\ made = "MultiIndex" =>
       \A value \in Scalars :
         InternedOnce(mi, MultiIndex_update_mappings_with(mi, << value >>).self, value)

StoreOnlyGrows ==
  /\ (made = "Index" /\ made' = "Index") => StoreKept(idx.mapping, idx'.mapping)
  /\ (made = "MultiIndex" /\ made' = "MultiIndex" /\ last' # "__add__")
       => StoreKept(mi.mapping, mi'.mapping)

(* C32: the interning store only grows. Across every step on one object each
   (key, value) pair of mapping stays with the same value (the result of +
   is another object); interning a known value changes nothing, and interning
   an unseen valid value adds exactly one pair whose key is the size of the
   store before, also when no position refers to an older key any more. *)
C32_InterningStoreOnlyGrows == [](InterningIsDense) /\ [][StoreOnlyGrows]_vars

(* A store that still holds the pair of a key no position refers to. *)
C32_Witness ==
  \/ /\ made = "Index"
     /\ Index_len(idx) > 0
     /\ \E key \in DOMAIN idx.mapping : ~Contains(idx.index, key)
  \/ /\ made = "MultiIndex"
     /\ MultiIndex_len(mi) > 0
     /\ last = "__setitem__"
     /\ \E key \in DOMAIN mi.mapping :
          \A level \in 1 .. mi.levels : ~Contains(mi.multiindex[level], key)

(* C33: step order of an Index positional set at one position: the cache
   entry of the old key is removed, the cache entry of the new key is
   inserted, and only then is the position overwritten; so a set at a
   position in range with a valid value that fails (the cache removal
   failed) leaves the position holding the old key. *)
C33_PositionWrittenLast ==
  (made = "Index" /\ idx.cached) =>
    \A p \in PosInputs, v \in Scalars :
      (p >= 0 - Index_len(idx) /\ p < Index_len(idx)) =>
        LET r == Index_setitem_int(idx, p, v)
        IN  Raised(r) => r.self.index = idx.index

(* The position pos lies before stop in the direction of step. *)
BeforeStop(pos, stop, step) == (step > 0 /\ pos < stop) \/ (step < 0 /\ pos > stop)

(* positions is start, start+step, start+2*step, ... for as long as the
   position lies before stop, for a slice over `length` items. *)
IsExpansion(positions, length, sl) ==
  LET step == IF sl[3] = None THEN 1 ELSE sl[3][1]
      start == IF sl[1] # None THEN sl[1][1] ELSE IF step > 0 THEN 0 ELSE length - 1
      stop == IF sl[2] # None THEN sl[2][1] ELSE IF step > 0 THEN length ELSE -1
  IN  /\ \A k \in 1 .. Len(positions) :
           positions[k] = start + (k - 1) * step /\ BeforeStop(positions[k], stop, step)
      /\ ~BeforeStop(start + Len(positions) * step, stop, step)
      /\ step = 0 => positions = << >>

(* C34: expanding a slice to positions ends for every start, stop and step,
   each possibly absent, and returns exactly start, start+step, ... for as
   long as the position is < stop (step > 0) or > stop (step < 0), after
   defaulting step to 1, start to 0 or len-1 and stop to len or -1; for
   step = 0 it returns the empty list. *)
C34_ExpandSliceToPositions ==
  /\ made = "Index" =>
       \A sl \in SliceInputs :
         IsExpansion(Index_get_int_indexes_from_slice(idx, sl[1], sl[2], sl[3]),
                     Index_len(idx), sl)
  /\ made = "MultiIndex" =>
       \A sl \in RowSliceInputs :
         IsExpansion(MultiIndex_get_int_indexes_from_slice(mi, sl[1], sl[2], sl[3]),
                     MultiIndex_len(mi), sl)

(* After a set, an Index of MaxLen items, whose slice with every bound
   absent and step -1 expands to its positions from the last to the first. *)
C34_Witness ==
  /\ made = "Index"
  /\ last = "__setitem__"
  /\ Index_len(idx) = MaxLen
  /\ Index_get_int_indexes_from_slice(idx, None, None, Some(-1))
       = [k \in 1 .. MaxLen |-> MaxLen - k]

(* The tuples membership is asked for: of one and of two valid scalars. *)
MemberInputs == SeqsUpTo(Scalars, 2) \ {<< >>}

(* C35: MultiIndex membership. In every state reached by construction and
   positional row writes, t in mi is true iff t has level_count items and at
   least one current row equals t; the answer is the same with and without a
   cache, and a row value that has been completely overwritten is reported
   as not contained. *)
C35_Membership ==
  made = "MultiIndex" =>
    \A t \in MemberInputs :
      /\ MultiIndex_contains(mi, t)
           <=> (Len(t) = mi.levels /\ Contains(MultiIndex_to_tuples(mi), t))
      /\ MultiIndex_contains(mi, t) <=> MultiIndex_contains(MultiIndex_flush_cache(mi), t)

(* Every bucket of the cache of self is a duplicate-free ascending list of
   exactly the positions of the rows equal to its key-tuple. *)
CacheExact(self) ==
  \A t \in DOMAIN self.cache :
    /\ \A i, j \in 1 .. Len(self.cache[t]) : i < j => self.cache[t][i] < self.cache[t][j]
    /\ SeqSet(self.cache[t])
         = {p \in 0 .. MultiIndex_len(self) - 1 :
              \A level \in 1 .. self.levels : self.multiindex[level][p + 1] = t[level]}

(* C37: self-extension keeps the cache exact: after mi.extend(mi) on a
   cache-enabled MultiIndex with n rows the index has 2n rows and every cache
   bucket is a duplicate-free ascending list of exactly the positions of the
   rows equal to its key-tuple. *)
C37_SelfExtensionKeepsCacheExact ==
  (made = "MultiIndex" /\ mi.cached /\ CacheExact(mi)) =>
    LET r == MultiIndex_extend(mi, mi, TRUE, << >>)
    IN  /\ ~Raised(r)
        /\ MultiIndex_len(r.self) = 2 * MultiIndex_len(mi)
        /\ CacheExact(r.self)

(* C36: an Index single-position set idx[p] = v with a valid scalar v and p
   in [-len, len): afterwards position p (len + p when p is negative) holds v,
   every other position holds the value it held before, and the length is
   unchanged, with or without a cache. *)
C36_SetWritesOnePosition ==
  made = "Index" =>
    \A p \in PosInputs, v \in Scalars :
      (p >= 0 - Index_len(idx) /\ p < Index_len(idx)) =>
        LET r == Index_setitem_int(idx, p, v)
            q == IF p < 0 THEN Index_len(idx) + p ELSE p
        IN  /\ ~Raised(r)
            /\ Index_len(r.self) = Index_len(idx)
            /\ \A i \in 1 .. Index_len(idx) :
                 Index_to_list(r.self)[i] = IF i = q + 1 THEN v ELSE Index_to_list(idx)[i]

(* After a set, an Index with a cache whose middle position holds another
   value than the positions around it. *)
C36_Witness ==
  /\ made = "Index"
  /\ last = "__setitem__"
  /\ idx.cached
  /\ Index_to_list(idx) = << 1, 2, 1 >>

(* The Index every read of idx leaves, with every argument. *)
IndexAfterReads ==
  {Index_get_loc(idx, index, get_all, give_error).self :
     index \in Items, get_all \in BOOLEAN, give_error \in BOOLEAN}
  \cup {Index_getitem_int(idx, index).self : index \in PosInputs}
  \cup {Index_getitem_list(idx, index).self : index \in ListInputs}
  \cup {Index_getitem_mask(idx, index).self : index \in MaskInputs}
  \cup {Index_getitem_slice(idx, sl[1], sl[2], sl[3]).self : sl \in SliceInputs}

(* The MultiIndex every read of mi leaves, with every argument. *)
MultiIndexAfterReads ==
  {MultiIndex_get_loc(mi, tup, get_all, give_error).self :
     tup \in NewDataInputs \cup {<< >>}, get_all \in BOOLEAN, give_error \in BOOLEAN}
  \cup {MultiIndex_getitem_int(mi, index).self : index \in RowPosInputs}
  \cup {MultiIndex_getitem_list(mi, index).self : index \in RowListInputs}
  \cup {MultiIndex_getitem_mask(mi, index).self : index \in RowMaskInputs}
  \cup {MultiIndex_getitem_slice(mi, sl[1], sl[2], sl[3]).self : sl \in RowSliceInputs}

(* C38: read operations do not change state: get_loc (found, not found or
   failing) and the positional reads by position, list, mask and slice leave
   positions / level columns, mapping, reverse_mapping, cache and names
   exactly as before, for both index types. *)
C38_ReadsChangeNothing ==
  /\ made = "Index" => IndexAfterReads = {idx}
  /\ made = "MultiIndex" => MultiIndexAfterReads = {mi}

(* After a read, an Index of MaxLen items with a cache, which has a lookup
   that finds, a lookup that misses and a read that fails. *)
C38_Witness ==
  /\ made = "Index"
  /\ last = "__getitem__"
  /\ idx.cached
  /\ Index_len(idx) = MaxLen
  /\ \E index \in Scalars : Index_get_loc(idx, index, TRUE, TRUE).kind = "list"
  /\ \E index \in Scalars : Index_get_loc(idx, index, TRUE, TRUE).kind = "KeyError"
  /\ Raised(Index_getitem_int(idx, MaxLen))

(* The values the rows of first hold, in the orders from_tuples may intern
   them when first is copied. *)
CopyOrders(first) == Orders(ValuesOf(first))

(* C39: first + second is not in place: it returns a new MultiIndex whose
   rows are the rows of first followed by the rows of second, and it leaves
   first (levels, interning store, cache, names) unchanged; second, and first
   when it is its own second operand, are only read. *)
C39_AddIsNotInPlace ==
  made = "MultiIndex" =>
    \A second \in SecondsFor(mi) \cup {mi} :
      \A copy_order \in CopyOrders(mi) :
        \A order \in Orders(DOMAIN second.reverse_mapping \ SeqSet(copy_order)) :
          LET r == MultiIndex_add(mi, second, second = mi, copy_order, order)
          IN  /\ ~Raised(r)
              /\ r.self = mi
              /\ MultiIndex_to_tuples(r.val[1])
                   = MultiIndex_to_tuples(mi) \o MultiIndex_to_tuples(second)

=============================================================================
